---- MODULE Spec2Model ----
(***************************************************************************)
(* A model of codegraphgen: the in-memory graph store (db/inmemory.go),    *)
(* the knowledge-graph generator that writes to and queries it             *)
(* (core.KnowledgeGraphGenerator), and the deterministic identity scheme   *)
(* of graph.CreateEntity (internal/core/graph/types.go).                   *)
(*                                                                         *)
(* Go strings whose bytes the code inspects (query texts, entity types,    *)
(* labels and discriminator values fed to the id function) are sequences   *)
(* of one-character strings.  Ids, labels and property keys that the store *)
(* only compares for equality are TLA+ strings.  A Go map is a function    *)
(* whose DOMAIN is the set of keys present; a nil Properties map and an    *)
(* empty one hold the same keys and values and are both the empty          *)
(* function.  The order of a Go map iteration is not specified, so a       *)
(* result list built by ranging over a map is the set of its rows (the     *)
(* rows of every query are pairwise distinct), and a loop that stops at    *)
(* the first match ranges over every match it could stop at.               *)
(***************************************************************************)
EXTENDS Naturals, Integers, Sequences, FiniteSets, TLC

VARIABLES
    entities,       \* InMemoryDatabase.entities: id -> Entity
    relationships,  \* InMemoryDatabase.relationships: id -> Relationship
    call,           \* the last call made on the store: its name, arguments and error
    rows,           \* the rows the last call returned, when it was a query
    submitted,      \* history: id -> the confidences passed to CreateEntity for that id
    before,         \* history: the store as it was when the last call began
    created,        \* history: the two most recent calls that created entities
    threads,        \* the concurrent callers of the store: where each is in its call
    mutex,          \* InMemoryDatabase.mutex: its writer and its readers
    scanned,        \* the last AnalyzeCodebase call: its file system and what it returned
    memgraph,       \* MemgraphDatabase: its driver, and the nodes and edges of the server
    heap            \* the property maps of the Go heap, and the entity values that share them

vars ==
    <<entities, relationships, call, rows, submitted, before, created, threads, mutex,
      scanned, memgraph, heap>>

---------------------------------------------------------------------------
(* Bounds of the model *)

MaxConfidence == 2
MaxPropValue == 2
MaxRelationshipPropValue == 1
MaxBatch == 2
MaxBatchRelationships == 3

(* Values the calls are made with *)

EntityIds == {"e1", "e2"}
Labels == {"a", "b"}
PropKeys == {"k1", "k2"}
RelationshipIds == {"", "r1", "r2"}
RelationshipPropKeys == {"k1"}

CLASS == <<"C", "L", "A", "S", "S">>
FILE == <<"F", "I", "L", "E">>
EntityTypes == {CLASS, FILE}

CALLS == <<"C", "A", "L", "L", "S">>
RelationshipTypes == {CALLS}

EmptyProperties == [k \in {} |-> 0]

PropertyMaps(keys, max) == UNION {[K -> 1..max] : K \in SUBSET keys}

---------------------------------------------------------------------------
(* db/struct.go: the records *)

Entity(id, label, type, confidence, properties) ==
    [ID |-> id, Label |-> label, Type |-> type,
     Confidence |-> confidence, Properties |-> properties]

Relationship(id, source, target, type, confidence, properties) ==
    [ID |-> id, Source |-> source, Target |-> target, Type |-> type,
     Confidence |-> confidence, Properties |-> properties]

\* The zero values of the two structs
NoEntity == Entity("", "", <<>>, 0, EmptyProperties)
NoRelationship == Relationship("", "", "", <<>>, 0, EmptyProperties)

\* m[k] = v of a Go map
Put_Alone(m, k, v) == [x \in {k} |-> v]

Put(m, k, v) == [x \in (DOMAIN m) \cup {k} |-> IF x = k THEN v ELSE m[x]]

EmptyMap == [x \in {} |-> NoEntity]

---------------------------------------------------------------------------
(* InMemoryDatabase.CreateEntity *)

\* "if entity.Confidence > existingEntity.Confidence { ... = entity.Confidence }"
MergeConfidence_LastWins(existing, incoming) == incoming

MergeConfidence(existing, incoming) ==
    IF incoming > existing THEN incoming ELSE existing

\* "for k, v := range entity.Properties { updatedEntity.Properties[k] = v }"
MergeProperties_Replace(existing, incoming) == incoming

MergeProperties(existing, incoming) ==
    [k \in (DOMAIN existing) \cup (DOMAIN incoming) |->
        IF k \in DOMAIN incoming THEN incoming[k] ELSE existing[k]]

\* The "exists" branch: the stored record with the new label, the higher
\* confidence and the merged properties (ID and Type stay the stored ones)
UpdatedEntity(existingEntity, entity) ==
    [existingEntity EXCEPT
        !.Label = entity.Label,
        !.Confidence = MergeConfidence(existingEntity.Confidence, entity.Confidence),
        !.Properties = MergeProperties(existingEntity.Properties, entity.Properties)]

CreateEntity(ents, entity) ==
    IF entity.ID \in DOMAIN ents
    THEN Put(ents, entity.ID, UpdatedEntity(ents[entity.ID], entity))
    ELSE Put(ents, entity.ID, entity)

---------------------------------------------------------------------------
(* InMemoryDatabase.CreateRelationship *)

SourceMissing(ents, relationship) == relationship.Source \notin DOMAIN ents

TargetMissing_Unchecked(ents, relationship) == FALSE

TargetMissing(ents, relationship) == relationship.Target \notin DOMAIN ents

\* The ids the range loop can stop at: a stored relationship between the same
\* entities with the same type
SameEdgeIds(rels, relationship) ==
    {id \in DOMAIN rels :
        /\ rels[id].Source = relationship.Source
        /\ rels[id].Target = relationship.Target
        /\ rels[id].Type = relationship.Type}

\* The values "existingID" can hold after the loop: "" when nothing matched,
\* else the id of the match the iteration met first
ExistingIDs(rels, relationship) ==
    IF SameEdgeIds(rels, relationship) = {}
    THEN {""}
    ELSE SameEdgeIds(rels, relationship)

UpdatedRelationship(existingRel, relationship) ==
    [existingRel EXCEPT
        !.Confidence = MergeConfidence(existingRel.Confidence, relationship.Confidence),
        !.Properties = MergeProperties(existingRel.Properties, relationship.Properties)]

\* "if existingID != "" { update } else { db.relationships[relationship.ID] = relationship }"
StoreRelationship(rels, relationship, existingID) ==
    IF existingID # ""
    THEN Put(rels, existingID, UpdatedRelationship(rels[existingID], relationship))
    ELSE Put(rels, relationship.ID, relationship)

\* Every outcome of one call: the error returned and the relationships map after it
CreateRelationship(ents, rels, relationship) ==
    IF SourceMissing(ents, relationship)
    THEN {[err |-> "source entity not found", rels |-> rels]}
    ELSE IF TargetMissing(ents, relationship)
    THEN {[err |-> "target entity not found", rels |-> rels]}
    ELSE {[err |-> "nil", rels |-> StoreRelationship(rels, relationship, existingID)] :
            existingID \in ExistingIDs(rels, relationship)}

---------------------------------------------------------------------------
(* InMemoryDatabase.CreateEntities, CreateRelationships, ClearDatabase *)

RECURSIVE CreateEntities(_, _)
CreateEntities(ents, list) ==
    IF list = <<>> THEN ents
    ELSE CreateEntities(CreateEntity(ents, Head(list)), Tail(list))

RECURSIVE CreateRelationships_SkipFailed(_, _, _)
CreateRelationships_SkipFailed(ents, rels, list) ==
    IF list = <<>> THEN {[err |-> "nil", rels |-> rels]}
    ELSE UNION {
            {[err |-> IF one.err # "nil" THEN one.err ELSE rest.err, rels |-> rest.rels] :
                rest \in CreateRelationships_SkipFailed(ents, one.rels, Tail(list))} :
            one \in CreateRelationship(ents, rels, Head(list))}

\* The loop returns at the first error; the relationships before it stay stored
RECURSIVE CreateRelationships(_, _, _)
CreateRelationships(ents, rels, list) ==
    IF list = <<>> THEN {[err |-> "nil", rels |-> rels]}
    ELSE UNION {
            IF one.err # "nil" THEN {one}
            ELSE CreateRelationships(ents, one.rels, Tail(list)) :
            one \in CreateRelationship(ents, rels, Head(list))}

---------------------------------------------------------------------------
(* InMemoryDatabase.Query and the query texts its callers build *)

AllEntitiesQuery == <<"M", "A", "T", "C", "H", " ", "(", "n", ")", " ", "R", "E", "T", "U", "R", "N", " ", "n">>

AllRelationshipsQuery == <<"M", "A", "T", "C", "H", " ", "(", "a", ")", "-", "[", "r", "]", "-", ">", "(", "b", ")", " ", "R", "E", "T", "U", "R", "N", " ", "a", ",", " ", "r", ",", " ", "b">>

EntityStatsQuery == <<"\n", "\t", "\t", "M", "A", "T", "C", "H", " ", "(", "n", ")", "\n", "\t", "\t", "R", "E", "T", "U", "R", "N", " ", "l", "a", "b", "e", "l", "s", "(", "n", ")", "[", "0", "]", " ", "a", "s", " ", "t", "y", "p", "e", ",", " ", "c", "o", "u", "n", "t", "(", "*", ")", " ", "a", "s", " ", "c", "o", "u", "n", "t", "\n", "\t">>

RelationshipStatsQuery == <<"\n", "\t", "\t", "M", "A", "T", "C", "H", " ", "(", ")", "-", "[", "r", "]", "-", ">", "(", ")", "\n", "\t", "\t", "R", "E", "T", "U", "R", "N", " ", "t", "y", "p", "e", "(", "r", ")", " ", "a", "s", " ", "t", "y", "p", "e", ",", " ", "c", "o", "u", "n", "t", "(", "*", ")", " ", "a", "s", " ", "c", "o", "u", "n", "t", "\n", "\t">>

DetachDeleteQuery == <<"M", "A", "T", "C", "H", " ", "(", "n", ")", " ", "D", "E", "T", "A", "C", "H", " ", "D", "E", "L", "E", "T", "E", " ", "n">>

\* The literal the type branch compares the head of the query with
TypeQueryLiteral == <<"M", "A", "T", "C", "H", " ", "(", "n", ":">>

\* The number of leading bytes the type branch takes, and the index it scans from
TypeQueryOffset == 12

\* fmt.Sprintf("MATCH (n:%s) RETURN n", entityType) of FindEntitiesByType
FindEntitiesByTypeQuery(entityType) ==
    <<"M", "A", "T", "C", "H", " ", "(", "n", ":">> \o entityType
        \o <<")", " ", "R", "E", "T", "U", "R", "N", " ", "n">>

\* Go's s[lo:hi] and s[i], indexes from 0
Slice(s, lo, hi) == SubSeq(s, lo + 1, hi)
ByteAt(s, i) == s[i + 1]

\* "len(cypher) > 12 && cypher[:12] == "MATCH (n:""
IsTypeQuery(cypher) ==
    /\ Len(cypher) > TypeQueryOffset
    /\ Slice(cypher, 0, TypeQueryOffset) = TypeQueryLiteral

\* The index of the first ')' at or after the offset, -1 when there is none
EndIdx(cypher) ==
    LET closing == {i \in TypeQueryOffset..(Len(cypher) - 1) : ByteAt(cypher, i) = ")"}
    IN  IF closing = {} THEN -1
        ELSE CHOOSE i \in closing : \A j \in closing : i <= j

EntitiesOfType(ents, entityType) ==
    {[n |-> ents[id]] : id \in {x \in DOMAIN ents : ents[x].Type = entityType}}

\* "typeCounts[string(entity.Type)]++" for every record, then one row per key
TypeCounts_OnePerType(records) ==
    {[type |-> t, count |-> 1] : t \in {records[id].Type : id \in DOMAIN records}}

TypeCounts(records) ==
    {[type |-> t, count |-> Cardinality({id \in DOMAIN records : records[id].Type = t})] :
        t \in {records[id].Type : id \in DOMAIN records}}

\* The rows of "MATCH (a)-[r]->(b) RETURN a, r, b": one for every relationship
\* whose endpoints are both stored
RelationshipRows_SourceTwice(ents, rels) ==
    {[a |-> ents[rels[id].Source], r |-> rels[id], b |-> ents[rels[id].Source]] :
        id \in {x \in DOMAIN rels :
                    rels[x].Source \in DOMAIN ents /\ rels[x].Target \in DOMAIN ents}}

RelationshipRows(ents, rels) ==
    {[a |-> ents[rels[id].Source], r |-> rels[id], b |-> ents[rels[id].Target]] :
        id \in {x \in DOMAIN rels :
                    rels[x].Source \in DOMAIN ents /\ rels[x].Target \in DOMAIN ents}}

\* The rows Query returns (its error is always nil)
Query(ents, rels, cypher) ==
    IF cypher = AllEntitiesQuery
    THEN {[n |-> ents[id]] : id \in DOMAIN ents}
    ELSE IF cypher = AllRelationshipsQuery
    THEN RelationshipRows(ents, rels)
    ELSE IF IsTypeQuery(cypher) /\ EndIdx(cypher) # -1
    THEN EntitiesOfType(ents, Slice(cypher, TypeQueryOffset, EndIdx(cypher)))
    ELSE IF cypher = EntityStatsQuery
    THEN TypeCounts(ents)
    ELSE IF cypher = RelationshipStatsQuery
    THEN TypeCounts(rels)
    ELSE {}

\* KnowledgeGraphGenerator.FindEntitiesByType on the in-memory store
FindEntitiesByType(ents, rels, entityType) ==
    Query(ents, rels, FindEntitiesByTypeQuery(entityType))

\* "for _, count := range entitiesByType { totalEntities += count }"
RECURSIVE SumOf(_)
SumOf(byType) ==
    IF DOMAIN byType = {} THEN 0
    ELSE LET t == CHOOSE x \in DOMAIN byType : TRUE
         IN  byType[t] + SumOf([x \in (DOMAIN byType) \ {t} |-> byType[x]])

\* "entitiesByType[entityType] = count" for every row of a statistics query
ByType(stats) ==
    [t \in {stat.type : stat \in stats} |->
        (CHOOSE stat \in stats : stat.type = t).count]

\* KnowledgeGraphGenerator.GetGraphStatistics on the in-memory store
GetGraphStatistics(ents, rels) ==
    LET entitiesByType == ByType(Query(ents, rels, EntityStatsQuery))
        relationshipsByType == ByType(Query(ents, rels, RelationshipStatsQuery))
    IN  [TotalEntities |-> SumOf(entitiesByType),
         TotalRelationships |-> SumOf(relationshipsByType),
         EntitiesByType |-> entitiesByType,
         RelationshipsByType |-> relationshipsByType]

---------------------------------------------------------------------------
(* KnowledgeGraphGenerator.StoreKnowledgeGraph on the in-memory store *)

\* The first loop: CreateEntity for every entity (it returns no error here)
RECURSIVE StoreEntities(_, _)
StoreEntities(ents, list) ==
    IF list = <<>> THEN ents
    ELSE StoreEntities(CreateEntity(ents, Head(list)), Tail(list))

\* The second loop: CreateRelationship for every relationship; a failure is
\* logged and the loop goes on.  Every outcome: the relationships map and
\* successfulRelationships after the loop
StoreRelationships_StopAtError(ents, rels, list, successfulRelationships) ==
    {[rels |-> out.rels, successfulRelationships |-> Len(list)] :
        out \in CreateRelationships(ents, rels, list)}

RECURSIVE StoreRelationships(_, _, _, _)
StoreRelationships(ents, rels, list, successfulRelationships) ==
    IF list = <<>>
    THEN {[rels |-> rels, successfulRelationships |-> successfulRelationships]}
    ELSE UNION {
            StoreRelationships(ents, one.rels, Tail(list),
                IF one.err = "nil" THEN successfulRelationships + 1
                ELSE successfulRelationships) :
            one \in CreateRelationship(ents, rels, Head(list))}

StoreKnowledgeGraph_RelationshipsFirst(ents, rels, entityList, relationshipList) ==
    {[entities |-> StoreEntities(ents, entityList),
      relationships |-> out.rels,
      successfulRelationships |-> out.successfulRelationships,
      err |-> "nil"] :
        out \in StoreRelationships(ents, rels, relationshipList, 0)}

\* Every outcome of one call.  The closing debugFunctionRelationships only
\* queries, and its failure is logged: the call returns nil
StoreKnowledgeGraph(ents, rels, entityList, relationshipList) ==
    {[entities |-> StoreEntities(ents, entityList),
      relationships |-> out.rels,
      successfulRelationships |-> out.successfulRelationships,
      err |-> "nil"] :
        out \in StoreRelationships(StoreEntities(ents, entityList), rels, relationshipList, 0)}

---------------------------------------------------------------------------
(* The calls: one action per method of the store *)

CallOf(op, entity, relationship, list, cypher, err) ==
    [op |-> op, entity |-> entity, relationship |-> relationship,
     list |-> list, cypher |-> cypher, err |-> err]

\* The entity type a FindEntitiesByType call was made with: the text between
\* "MATCH (n:" and ") RETURN n" of the query it built
EntityTypeAsked(c) == SubSeq(c.cypher, 10, Len(c.cypher) - 10)

NoCall == CallOf("none", NoEntity, NoRelationship, <<>>, <<>>, "nil")

NothingSubmitted == [id \in EntityIds |-> {}]

Submit(sub, entity) == [sub EXCEPT ![entity.ID] = @ \cup {entity.Confidence}]

RECURSIVE SubmitAll(_, _)
SubmitAll(sub, list) ==
    IF list = <<>> THEN sub ELSE SubmitAll(Submit(sub, Head(list)), Tail(list))

\* The sequences of at most n elements of S
SeqsUpTo(S, n) == UNION {[1..k -> S] : k \in 0..n}

Store == [entities |-> entities, relationships |-> relationships]

Threads == {"t1", "t2", "t3"}

\* A caller that has not begun its call
IdleThread ==
    [pc |-> "idle", op |-> "none", entity |-> NoEntity, relationship |-> NoRelationship,
     cypher |-> <<>>, exists |-> FALSE, existing |-> NoEntity,
     sourceExists |-> FALSE, targetExists |-> FALSE, existingID |-> "",
     rels |-> EmptyMap, err |-> "nil", rows |-> {}]

NothingScanned == [op |-> "none"]

\* NewMemgraphDatabase: no driver yet; the server holds no node and no edge
NoMemgraph == [driver |-> "nil", nodes |-> EmptyMap, edges |-> EmptyMap]

\* No property map allocated, nothing stored, no value in a caller's hands
EmptyHeap == [maps |-> <<>>, entities |-> EmptyMap, held |-> {}]

InitStore ==
    /\ entities = EmptyMap
    /\ relationships = EmptyMap
    /\ call = NoCall
    /\ rows = {}
    /\ submitted = NothingSubmitted
    /\ before = [entities |-> EmptyMap, relationships |-> EmptyMap]
    /\ created = <<>>
    /\ threads = [t \in Threads |-> IdleThread]
    /\ mutex = [writer |-> "none", readers |-> {}]
    /\ scanned = NothingScanned
    /\ memgraph = NoMemgraph
    /\ heap = EmptyHeap

CreateEntityCall(inputs) ==
    \E entity \in inputs :
        /\ entities' = CreateEntity(entities, entity)
        /\ call' = CallOf("CreateEntity", entity, NoRelationship, <<>>, <<>>, "nil")
        /\ submitted' = Submit(submitted, entity)
        /\ rows' = {}
        /\ UNCHANGED <<relationships, before, created, threads, mutex, scanned, memgraph, heap>>

CreateRelationshipCall(inputs) ==
    \E relationship \in inputs :
        \E out \in CreateRelationship(entities, relationships, relationship) :
            /\ relationships' = out.rels
            /\ call' = CallOf("CreateRelationship", NoEntity, relationship, <<>>, <<>>, out.err)
            /\ rows' = {}
            /\ UNCHANGED <<entities, submitted, before, created, threads, mutex, scanned, memgraph, heap>>

CreateEntitiesCall(inputs) ==
    \E list \in SeqsUpTo(inputs, MaxBatch) :
        /\ entities' = CreateEntities(entities, list)
        /\ call' = CallOf("CreateEntities", NoEntity, NoRelationship, list, <<>>, "nil")
        /\ submitted' = SubmitAll(submitted, list)
        /\ rows' = {}
        /\ UNCHANGED <<relationships, before, created, threads, mutex, scanned, memgraph, heap>>

CreateRelationshipsCall(inputs) ==
    \E list \in SeqsUpTo(inputs, MaxBatch) :
        \E out \in CreateRelationships(entities, relationships, list) :
            /\ relationships' = out.rels
            /\ call' = CallOf("CreateRelationships", NoEntity, NoRelationship, list, <<>>, out.err)
            /\ rows' = {}
            /\ UNCHANGED <<entities, submitted, before, created, threads, mutex, scanned, memgraph, heap>>

QueryTexts ==
    {AllEntitiesQuery, AllRelationshipsQuery, EntityStatsQuery, RelationshipStatsQuery,
     DetachDeleteQuery}

QueryCall ==
    \E cypher \in QueryTexts :
        /\ rows' = Query(entities, relationships, cypher)
        /\ call' = CallOf("Query", NoEntity, NoRelationship, <<>>, cypher, "nil")
        /\ UNCHANGED <<entities, relationships, submitted, before, created, threads, mutex, scanned, memgraph, heap>>

FindEntitiesByTypeCall ==
    \E entityType \in EntityTypes :
        /\ rows' = FindEntitiesByType(entities, relationships, entityType)
        /\ call' = CallOf("FindEntitiesByType", NoEntity, NoRelationship, <<>>,
                          FindEntitiesByTypeQuery(entityType), "nil")
        /\ UNCHANGED <<entities, relationships, submitted, before, created, threads, mutex, scanned, memgraph, heap>>

\* rows holds the one GraphStatistics value returned
GetGraphStatisticsCall ==
    /\ rows' = {GetGraphStatistics(entities, relationships)}
    /\ call' = CallOf("GetGraphStatistics", NoEntity, NoRelationship, <<>>, <<>>, "nil")
    /\ UNCHANGED <<entities, relationships, submitted, before, created, threads, mutex, scanned, memgraph, heap>>

\* KnowledgeGraphGenerator.ClearDatabase: it sends the delete query to the
\* store, drops the rows and returns the query's error, which Query never
\* sets; Query changes nothing in the store
GeneratorClearDatabaseCall ==
    /\ rows' = {}
    /\ call' = CallOf("KnowledgeGraphGenerator.ClearDatabase", NoEntity, NoRelationship,
                      <<>>, DetachDeleteQuery, "nil")
    /\ UNCHANGED <<entities, relationships, submitted, before, created, threads, mutex, scanned, memgraph, heap>>

ClearDatabaseCall_EntitiesOnly ==
    /\ entities' = EmptyMap
    /\ call' = CallOf("ClearDatabase", NoEntity, NoRelationship, <<>>, <<>>, "nil")
    /\ submitted' = NothingSubmitted
    /\ rows' = {}
    /\ UNCHANGED <<relationships, before, created, threads, mutex, scanned, memgraph, heap>>

ClearDatabaseCall ==
    /\ entities' = EmptyMap
    /\ relationships' = EmptyMap
    /\ call' = CallOf("ClearDatabase", NoEntity, NoRelationship, <<>>, <<>>, "nil")
    /\ submitted' = NothingSubmitted
    /\ rows' = {}
    /\ UNCHANGED <<before, created, threads, mutex, scanned, memgraph, heap>>

---------------------------------------------------------------------------
(* The store under every call, with entities that differ in id and type *)

StoreEntityInputs ==
    {Entity(id, "a", type, 1, EmptyProperties) : id \in EntityIds, type \in EntityTypes}

\* Every id with every pair of endpoints
StoreRelationshipInputs ==
    {Relationship(id, source, target, type, 1, EmptyProperties) :
        id \in RelationshipIds, source \in EntityIds, target \in EntityIds,
        type \in RelationshipTypes}

Next ==
    \/ CreateEntityCall(StoreEntityInputs)
    \/ CreateRelationshipCall(StoreRelationshipInputs)
    \/ CreateEntitiesCall(StoreEntityInputs)
    \/ CreateRelationshipsCall(StoreRelationshipInputs)
    \/ QueryCall
    \/ FindEntitiesByTypeCall
    \/ GetGraphStatisticsCall
    \/ GeneratorClearDatabaseCall
    \/ ClearDatabaseCall

Spec == InitStore /\ [][Next]_vars

---------------------------------------------------------------------------
(* The two upserts alone, CreateRelationship with every id, pair of endpoints,
   confidence and property map *)

UpsertEntityInputs == {Entity(id, "a", CLASS, 1, EmptyProperties) : id \in EntityIds}

RelationshipInputs ==
    {Relationship(id, source, target, type, confidence, properties) :
        id \in RelationshipIds, source \in EntityIds, target \in EntityIds,
        type \in RelationshipTypes, confidence \in 1..MaxConfidence,
        properties \in PropertyMaps(RelationshipPropKeys, MaxRelationshipPropValue)}

NextUpsert ==
    \/ CreateEntityCall(UpsertEntityInputs)
    \/ CreateRelationshipCall(RelationshipInputs)

SpecUpsert == InitStore /\ [][NextUpsert]_vars

(* CreateEntity alone, with every label, confidence and property map *)

EntityInputs ==
    {Entity(id, label, type, confidence, properties) :
        id \in EntityIds, label \in Labels, type \in {CLASS},
        confidence \in 1..MaxConfidence,
        properties \in PropertyMaps(PropKeys, MaxPropValue)}

NextEntity == CreateEntityCall(EntityInputs)

SpecEntity == InitStore /\ [][NextEntity]_vars

---------------------------------------------------------------------------
(* StoreKnowledgeGraph on a fresh store, and the same batch stored again *)

BatchEntityInputs ==
    {Entity(id, label, CLASS, confidence, EmptyProperties) :
        id \in EntityIds, label \in Labels, confidence \in 1..MaxConfidence}

BatchRelationshipInputs ==
    {Relationship(id, "e1", target, type, confidence, EmptyProperties) :
        id \in RelationshipIds \ {""}, target \in EntityIds,
        type \in RelationshipTypes, confidence \in 1..MaxConfidence}

\* The first call on a fresh store; rows holds the number it reports as stored
StoreKnowledgeGraphCall ==
    /\ call.op = "none"
    /\ \E entityList \in SeqsUpTo(BatchEntityInputs, MaxBatch) :
       \E relationshipList \in SeqsUpTo(BatchRelationshipInputs, MaxBatchRelationships) :
       \E out \in StoreKnowledgeGraph(entities, relationships, entityList, relationshipList) :
            /\ entities' = out.entities
            /\ relationships' = out.relationships
            /\ call' = CallOf("StoreKnowledgeGraph", NoEntity, NoRelationship,
                              <<entityList, relationshipList>>, <<>>, out.err)
            /\ submitted' = SubmitAll(submitted, entityList)
            /\ rows' = {[successfulRelationships |-> out.successfulRelationships]}
            /\ before' = Store
            /\ UNCHANGED <<created, threads, mutex, scanned, memgraph, heap>>

\* The caller stores the batch it has just stored once more
StoreKnowledgeGraphAgainCall ==
    /\ call.op = "StoreKnowledgeGraph"
    /\ \E out \in StoreKnowledgeGraph(entities, relationships, call.list[1], call.list[2]) :
            /\ entities' = out.entities
            /\ relationships' = out.relationships
            /\ call' = CallOf("StoreKnowledgeGraphAgain", NoEntity, NoRelationship,
                              call.list, <<>>, out.err)
            /\ submitted' = SubmitAll(submitted, call.list[1])
            /\ rows' = {[successfulRelationships |-> out.successfulRelationships]}
            /\ before' = Store
            /\ UNCHANGED <<created, threads, mutex, scanned, memgraph, heap>>

NextBatch ==
    \/ StoreKnowledgeGraphCall
    \/ StoreKnowledgeGraphAgainCall

SpecBatch == InitStore /\ [][NextBatch]_vars

---------------------------------------------------------------------------
(* Deterministic identity: graph.CreateEntity and generateDeterministicID. *)
(* A string these functions inspect is a sequence of one-character strings *)

MaxLineNumber == 2

DecimalDigits == <<"0", "1", "2", "3", "4", "5", "6", "7", "8", "9">>

\* The ASCII characters of the strings below, with their codes
UpperLetters ==
    <<"A", "B", "C", "D", "E", "F", "G", "H", "I", "J", "K", "L", "M",
      "N", "O", "P", "Q", "R", "S", "T", "U", "V", "W", "X", "Y", "Z">>

LowerLetters ==
    <<"a", "b", "c", "d", "e", "f", "g", "h", "i", "j", "k", "l", "m",
      "n", "o", "p", "q", "r", "s", "t", "u", "v", "w", "x", "y", "z">>

Punctuation == {<<" ", 32>>, <<"-", 45>>, <<".", 46>>, <<"/", 47>>, <<":", 58>>, <<"_", 95>>, <<"|", 124>>}

AsciiCode ==
    [c \in {UpperLetters[i] : i \in 1..26} \cup {LowerLetters[i] : i \in 1..26}
          \cup {DecimalDigits[i] : i \in 1..10} \cup {p[1] : p \in Punctuation} |->
        IF \E i \in 1..26 : UpperLetters[i] = c
        THEN 64 + (CHOOSE i \in 1..26 : UpperLetters[i] = c)
        ELSE IF \E i \in 1..26 : LowerLetters[i] = c
        THEN 96 + (CHOOSE i \in 1..26 : LowerLetters[i] = c)
        ELSE IF \E i \in 1..10 : DecimalDigits[i] = c
        THEN 47 + (CHOOSE i \in 1..10 : DecimalDigits[i] = c)
        ELSE (CHOOSE p \in Punctuation : p[1] = c)[2]]

HexDigits == <<"0", "1", "2", "3", "4", "5", "6", "7", "8", "9", "a", "b", "c", "d", "e", "f">>

\* strings.ToLower
ToLower_Unchanged(s) == s

ToLower(s) ==
    [i \in 1..Len(s) |->
        IF AsciiCode[s[i]] \in 65..90 THEN LowerLetters[AsciiCode[s[i]] + 32 - 96] ELSE s[i]]

\* fmt.Sprintf("%v", n) for an int; the analyzers pass lineNumber as an int
RECURSIVE FormatInt(_)
FormatInt(n) ==
    IF n < 10 THEN <<DecimalDigits[n + 1]>>
    ELSE FormatInt(n \div 10) \o <<DecimalDigits[(n % 10) + 1]>>

\* strings.Join
RECURSIVE Join(_, _)
Join(parts, sep) ==
    IF parts = <<>> THEN <<>>
    ELSE IF Len(parts) = 1 THEN parts[1]
    ELSE parts[1] \o sep \o Join(Tail(parts), sep)

\* fmt.Sprintf("%x", key): two lower-case hexadecimal digits for every byte
FormatHex(key) ==
    [i \in 1..(2 * Len(key)) |->
        IF i % 2 = 1 THEN HexDigits[(AsciiCode[key[(i + 1) \div 2]] \div 16) + 1]
        ELSE HexDigits[(AsciiCode[key[i \div 2]] % 16) + 1]]

LinePrefix == <<"l", "i", "n", "e", ":">>
NamespacePrefix == <<"n", "s", ":">>
PackagePrefix == <<"p", "k", "g", ":">>

Has(properties, key) == key \in DOMAIN properties

PathKeyParts(properties) ==
    IF Has(properties, "fullPath") THEN <<ToLower(properties["fullPath"])>>
    ELSE IF Has(properties, "path") THEN <<ToLower(properties["path"])>>
    ELSE IF Has(properties, "relativePath") THEN <<ToLower(properties["relativePath"])>>
    ELSE <<>>

SourceKeyParts(properties) ==
    IF Has(properties, "sourceFile")
    THEN <<ToLower(properties["sourceFile"])>> \o
         (IF Has(properties, "lineNumber")
          THEN <<LinePrefix \o FormatInt(properties["lineNumber"])>>
          ELSE <<>>)
    ELSE <<>>

NamespaceKeyParts(properties) ==
    (IF Has(properties, "namespace")
     THEN <<ToLower(NamespacePrefix \o properties["namespace"])>> ELSE <<>>) \o
    (IF Has(properties, "package")
     THEN <<ToLower(PackagePrefix \o properties["package"])>> ELSE <<>>)

generateDeterministicID(entityType, label, properties) ==
    LET keyParts == <<ToLower(entityType), ToLower(label)>> \o
                    PathKeyParts(properties) \o
                    SourceKeyParts(properties) \o
                    NamespaceKeyParts(properties)
    IN  FormatHex(Join(keyParts, <<"|">>))

GraphCreateEntity(label, entityType, properties) ==
    Entity(generateDeterministicID(entityType, label, properties),
           label, entityType, 1, properties)

\* One call recorded in created: its name, the file it was about, the label
\* it was given, and the entities it returned
Created(op, file, label, list) ==
    [op |-> op, file |-> file, label |-> label, entities |-> list]

\* created keeps the two most recent calls
Record(history, c) ==
    IF Len(history) < 2 THEN Append(history, c) ELSE <<history[2], c>>

LowerClass == <<"c", "l", "a", "s", "s">>
IdentityTypes == {CLASS, LowerClass}
IdentityLabels == {<<"a">>, <<"A">>}
IdentityTexts == {<<"a">>, <<"A">>}
Language == <<"g", "o">>

\* The key sets of the property maps passed in
PropertyKeySets ==
    {{}, {"fullPath"}, {"path"}, {"relativePath"}, {"fullPath", "path"},
     {"path", "relativePath"}, {"sourceFile"}, {"sourceFile", "lineNumber"},
     {"lineNumber"}, {"namespace"}, {"package"}, {"namespace", "package"},
     {"language"}}

PropertiesOver(keys) ==
    {[k \in keys |-> IF k = "lineNumber" THEN n ELSE texts[k]] :
        texts \in [keys \ {"lineNumber"} -> IdentityTexts],
        n \in IF "lineNumber" \in keys THEN 1..MaxLineNumber ELSE {1}}

IdentityProperties == UNION {PropertiesOver(keys) : keys \in PropertyKeySets}

GraphCreateEntityCall ==
    \E label \in IdentityLabels, entityType \in IdentityTypes,
       properties \in IdentityProperties :
        /\ created' = Record(created,
                Created("graph.CreateEntity", <<>>, label,
                        <<GraphCreateEntity(label, entityType, properties)>>))
        /\ UNCHANGED <<entities, relationships, call, rows, submitted, before, threads, mutex, scanned, memgraph, heap>>

NextIdentity == GraphCreateEntityCall

SpecIdentity == InitStore /\ [][NextIdentity]_vars

---------------------------------------------------------------------------
(* The analyzers: the entities analyzeGoFile makes of the import lines of  *)
(* a Go file, and analyzeJSONFile of the dependencies of a package.json    *)

MaxLines == 2

IMPORT == <<"I", "M", "P", "O", "R", "T">>
DEPENDENCY == <<"D", "E", "P", "E", "N", "D", "E", "N", "C", "Y">>
PackageJSON == <<"p", "a", "c", "k", "a", "g", "e", ".", "j", "s", "o", "n">>
DependencyKind == <<"d", "e", "p", "e", "n", "d", "e", "n", "c", "y">>
DevDependencyKind == <<"d", "e", "v", "D", "e", "p", "e", "n", "d", "e", "n", "c", "y">>
JSONLanguage == <<"j", "s", "o", "n">>
Version == <<"1">>

RECURSIVE TrimSlashes(_)
TrimSlashes(s) ==
    IF s # <<>> /\ s[Len(s)] = "/" THEN TrimSlashes(SubSeq(s, 1, Len(s) - 1)) ELSE s

LastSlash(s) ==
    IF \E i \in 1..Len(s) : s[i] = "/"
    THEN CHOOSE i \in 1..Len(s) : s[i] = "/" /\ \A j \in (i + 1)..Len(s) : s[j] # "/"
    ELSE 0

\* filepath.Base
Base(path) ==
    IF path = <<>> THEN <<".">>
    ELSE IF TrimSlashes(path) = <<>> THEN <<"/">>
    ELSE SubSeq(TrimSlashes(path), LastSlash(TrimSlashes(path)) + 1, Len(TrimSlashes(path)))

CodeFile(path, language) == [Path |-> path, Name |-> Base(path), Language |-> language]

\* CodeProcessor.createFileEntity; of its properties only path and language
\* are kept, the others (extension, size, lastModified, lineCount) are read
\* by nothing here
createFileEntity(file) ==
    GraphCreateEntity(file.Name, FILE,
        [k \in {"path", "language"} |-> IF k = "path" THEN file.Path ELSE file.Language])

GoImport(name, path, alias, lineNumber) ==
    [Name |-> name, Path |-> path, Alias |-> alias, LineNumber |-> lineNumber]

\* A line of a Go file, as extractGoImports tells lines apart:
\*   "open"    import (               "close"   a line holding )
\*   "spec"    [alias] "path"         "import"  import [alias] "path"
Line(kind, alias, path) == [kind |-> kind, alias |-> alias, path |-> path]

RECURSIVE ExtractFrom(_, _, _)
ExtractFrom(lines, i, inImportBlock) ==
    IF i > Len(lines) THEN <<>>
    ELSE IF lines[i].kind = "open" THEN ExtractFrom(lines, i + 1, TRUE)
    ELSE IF inImportBlock /\ lines[i].kind = "close" THEN ExtractFrom(lines, i + 1, FALSE)
    ELSE IF inImportBlock
    THEN (IF lines[i].kind \in {"spec", "import"}
          THEN <<GoImport(Base(lines[i].path), lines[i].path, <<>>, i)>>
          ELSE <<>>) \o ExtractFrom(lines, i + 1, inImportBlock)
    ELSE IF lines[i].kind = "import" /\ lines[i].alias # <<>>
    THEN <<GoImport(lines[i].alias, lines[i].path, lines[i].alias, i)>>
         \o ExtractFrom(lines, i + 1, inImportBlock)
    ELSE IF lines[i].kind = "import"
    THEN <<GoImport(Base(lines[i].path), lines[i].path, <<>>, i)>>
         \o ExtractFrom(lines, i + 1, inImportBlock)
    ELSE ExtractFrom(lines, i + 1, inImportBlock)

extractGoImports(lines) == ExtractFrom(lines, 1, FALSE)

GoImportProperties(imp) ==
    [k \in {"source", "alias", "lineNumber", "language"} |->
        IF k = "source" THEN imp.Path
        ELSE IF k = "alias" THEN imp.Alias
        ELSE IF k = "lineNumber" THEN imp.LineNumber
        ELSE Language]

\* The entities analyzeGoFile returns for a file of import lines
analyzeGoFile(file, fileEntity, lines) ==
    <<fileEntity>> \o
    [i \in 1..Len(extractGoImports(lines)) |->
        GraphCreateEntity(extractGoImports(lines)[i].Name, IMPORT,
                          GoImportProperties(extractGoImports(lines)[i]))]

DependencyProperties(file, kind) ==
    [k \in {"version", "sourceFile", "type"} |->
        IF k = "version" THEN Version
        ELSE IF k = "sourceFile" THEN file.Path
        ELSE kind]

\* Every order in which a range over a map with these keys can visit them
Orders(keys) ==
    {order \in [1..Cardinality(keys) -> keys] :
        \A i, j \in 1..Cardinality(keys) : i # j => order[i] # order[j]}

\* Every list of entities analyzeJSONFile can return
analyzeJSONFile(file, fileEntity, dependencies, devDependencies) ==
    IF file.Name # PackageJSON THEN {<<fileEntity>>}
    ELSE {<<fileEntity>> \o
          [i \in 1..Len(deps) |->
              GraphCreateEntity(deps[i], DEPENDENCY, DependencyProperties(file, DependencyKind))] \o
          [i \in 1..Len(devDeps) |->
              GraphCreateEntity(devDeps[i], DEPENDENCY, DependencyProperties(file, DevDependencyKind))] :
            deps \in Orders(dependencies), devDeps \in Orders(devDependencies)}

GoFiles ==
    {CodeFile(<<"a", ".", "g", "o">>, Language), CodeFile(<<"b", ".", "g", "o">>, Language)}

ImportPaths == {<<"a", "/", "x">>, <<"b", "/", "x">>}

GoLines ==
    {Line("open", <<>>, <<>>), Line("close", <<>>, <<>>)} \cup
    {Line("spec", <<>>, path) : path \in ImportPaths} \cup
    {Line("import", alias, path) : alias \in {<<>>, <<"x">>}, path \in ImportPaths}

JSONFiles ==
    {CodeFile(<<"a", "/">> \o PackageJSON, JSONLanguage),
     CodeFile(<<"b", "/">> \o PackageJSON, JSONLanguage),
     CodeFile(<<"c", ".", "j", "s", "o", "n">>, JSONLanguage)}

DependencyNames == {<<"x">>, <<"y">>}

AnalyzeGoFileCall ==
    \E file \in GoFiles, lines \in SeqsUpTo(GoLines, MaxLines) :
        /\ created' = Record(created,
                Created("analyzeGoFile", file.Path, <<>>,
                        analyzeGoFile(file, createFileEntity(file), lines)))
        /\ UNCHANGED <<entities, relationships, call, rows, submitted, before, threads, mutex, scanned, memgraph, heap>>

AnalyzeJSONFileCall ==
    \E file \in JSONFiles :
    \E dependencies \in SUBSET DependencyNames, devDependencies \in SUBSET DependencyNames :
    \E list \in analyzeJSONFile(file, createFileEntity(file), dependencies, devDependencies) :
        /\ created' = Record(created, Created("analyzeJSONFile", file.Path, <<>>, list))
        /\ UNCHANGED <<entities, relationships, call, rows, submitted, before, threads, mutex, scanned, memgraph, heap>>

NextAnalyzers ==
    \/ AnalyzeGoFileCall
    \/ AnalyzeJSONFileCall

SpecAnalyzers == InitStore /\ [][NextAnalyzers]_vars

---------------------------------------------------------------------------
(* Concurrent callers of one in-memory store.  A call is the steps of its  *)
(* body between taking and releasing db.mutex; what a caller has read it   *)
(* keeps in its own locals.                                                *)

ConcurrentEntityInputs ==
    {Entity("e1", "a", CLASS, confidence, properties) :
        confidence \in 1..MaxConfidence, properties \in PropertyMaps(PropKeys, 1)}

ConcurrentRelationshipInputs ==
    {Relationship(id, "e1", "e1", CALLS, confidence, EmptyProperties) :
        id \in {"r1", "r2"}, confidence \in 1..MaxConfidence}

ConcurrentQueryTexts == {AllEntitiesQuery, AllRelationshipsQuery}

\* sync.RWMutex: Lock waits until there is no writer and no reader
CanLock_Always(m) == TRUE

CanLock(m) == m.writer = "none" /\ m.readers = {}

\* sync.RWMutex: RLock waits until there is no writer
CanRLock(m) == m.writer = "none"

At(t, pc, op) == threads[t].pc = pc /\ threads[t].op = op

Goto(t, pc) == [threads EXCEPT ![t].pc = pc]

StoreUnchanged == UNCHANGED <<entities, relationships, call, rows, submitted, before, created, scanned, memgraph, heap>>

\* A caller begins a call of its choice
BeginCall(t) ==
    /\ threads[t].pc = "idle"
    /\ \/ \E entity \in ConcurrentEntityInputs :
            threads' = [threads EXCEPT ![t].pc = "lock", ![t].op = "CreateEntity",
                                       ![t].entity = entity]
       \/ \E relationship \in ConcurrentRelationshipInputs :
            threads' = [threads EXCEPT ![t].pc = "lock", ![t].op = "CreateRelationship",
                                       ![t].relationship = relationship]
       \/ \E cypher \in ConcurrentQueryTexts :
            threads' = [threads EXCEPT ![t].pc = "rlock", ![t].op = "Query",
                                       ![t].cypher = cypher]
    /\ UNCHANGED mutex
    /\ StoreUnchanged

\* "db.mutex.Lock()" of CreateEntity and CreateRelationship
Lock(t) ==
    /\ threads[t].pc = "lock"
    /\ CanLock(mutex)
    /\ mutex' = [mutex EXCEPT !.writer = t]
    /\ threads' = Goto(t, "read")
    /\ StoreUnchanged

\* "defer db.mutex.Unlock()"
Unlock(t) ==
    /\ threads[t].pc = "unlock"
    /\ mutex' = [mutex EXCEPT !.writer = IF mutex.writer = t THEN "none" ELSE mutex.writer]
    /\ threads' = Goto(t, "done")
    /\ StoreUnchanged

\* "db.mutex.RLock()" of Query
RLock(t) ==
    /\ threads[t].pc = "rlock"
    /\ CanRLock(mutex)
    /\ mutex' = [mutex EXCEPT !.readers = mutex.readers \cup {t}]
    /\ threads' = Goto(t, "read")
    /\ StoreUnchanged

\* "defer db.mutex.RUnlock()"
RUnlock(t) ==
    /\ threads[t].pc = "runlock"
    /\ mutex' = [mutex EXCEPT !.readers = mutex.readers \ {t}]
    /\ threads' = Goto(t, "done")
    /\ StoreUnchanged

\* CreateEntity: "existingEntity, exists := db.entities[entity.ID]"
ReadEntity(t) ==
    /\ At(t, "read", "CreateEntity")
    /\ threads' = [threads EXCEPT
            ![t].pc = "write",
            ![t].exists = threads[t].entity.ID \in DOMAIN entities,
            ![t].existing = IF threads[t].entity.ID \in DOMAIN entities
                            THEN entities[threads[t].entity.ID] ELSE NoEntity]
    /\ UNCHANGED mutex
    /\ StoreUnchanged

\* CreateEntity: "db.entities[entity.ID] = updatedEntity" or "... = entity"
WriteEntity(t) ==
    /\ At(t, "write", "CreateEntity")
    /\ entities' = IF threads[t].exists
                   THEN Put(entities, threads[t].entity.ID,
                            UpdatedEntity(threads[t].existing, threads[t].entity))
                   ELSE Put(entities, threads[t].entity.ID, threads[t].entity)
    /\ threads' = Goto(t, "unlock")
    /\ UNCHANGED <<relationships, call, rows, submitted, before, created, scanned, memgraph, heap, mutex>>

\* CreateRelationship: the two endpoint checks and the loop that sets existingID
ReadRelationship(t) ==
    /\ At(t, "read", "CreateRelationship")
    /\ \E existingID \in ExistingIDs(relationships, threads[t].relationship) :
        threads' = [threads EXCEPT
            ![t].pc = "write",
            ![t].sourceExists = ~SourceMissing(entities, threads[t].relationship),
            ![t].targetExists = ~TargetMissing(entities, threads[t].relationship),
            ![t].existingID = existingID]
    /\ UNCHANGED mutex
    /\ StoreUnchanged

\* CreateRelationship: the error returned, or the merge or the insertion
WriteRelationship(t) ==
    /\ At(t, "write", "CreateRelationship")
    /\ IF ~threads[t].sourceExists
       THEN /\ threads' = [threads EXCEPT ![t].pc = "unlock", ![t].err = "source entity not found"]
            /\ UNCHANGED relationships
       ELSE IF ~threads[t].targetExists
       THEN /\ threads' = [threads EXCEPT ![t].pc = "unlock", ![t].err = "target entity not found"]
            /\ UNCHANGED relationships
       ELSE /\ threads' = Goto(t, "unlock")
            /\ relationships' = StoreRelationship(relationships, threads[t].relationship,
                                                  threads[t].existingID)
    /\ UNCHANGED <<entities, call, rows, submitted, before, created, scanned, memgraph, heap, mutex>>

\* Query: the range over db.relationships (or over db.entities) begins
ScanQuery(t) ==
    /\ At(t, "read", "Query")
    /\ threads' = [threads EXCEPT ![t].pc = "write", ![t].rels = relationships]
    /\ UNCHANGED mutex
    /\ StoreUnchanged

\* Query: the rows are built, the endpoints looked up in db.entities
AnswerQuery(t) ==
    /\ At(t, "write", "Query")
    /\ threads' = [threads EXCEPT
            ![t].pc = "runlock",
            ![t].rows = Query(entities, threads[t].rels, threads[t].cypher)]
    /\ UNCHANGED mutex
    /\ StoreUnchanged

NextConcurrent ==
    \E t \in Threads :
        \/ BeginCall(t)
        \/ Lock(t)
        \/ Unlock(t)
        \/ RLock(t)
        \/ RUnlock(t)
        \/ ReadEntity(t)
        \/ WriteEntity(t)
        \/ ReadRelationship(t)
        \/ WriteRelationship(t)
        \/ ScanQuery(t)
        \/ AnswerQuery(t)

SpecConcurrent == InitStore /\ [][NextConcurrent]_vars

---------------------------------------------------------------------------
(* CodeProcessor: the scan of a directory tree and AnalyzeCodebase.  A     *)
(* file system is its root path, whether the root can be examined, and its *)
(* nodes: the directories and files below the root, each with the names of *)
(* the directories that lead to it from the root.                          *)

DIRECTORY == <<"D", "I", "R", "E", "C", "T", "O", "R", "Y">>
MODULE_TYPE == <<"M", "O", "D", "U", "L", "E">>
IMPORTS == <<"I", "M", "P", "O", "R", "T", "S">>
CONTAINS == <<"C", "O", "N", "T", "A", "I", "N", "S">>
REFERENCES == <<"R", "E", "F", "E", "R", "E", "N", "C", "E", "S">>
DEPENDS_ON == <<"D", "E", "P", "E", "N", "D", "S", "_", "O", "N">>
Unknown == <<"u", "n", "k", "n", "o", "w", "n">>
RootName == <<"r", "o", "o", "t">>

supportedExtensions ==
    {
     <<".", "t", "s">>, <<".", "j", "s">>, <<".", "t", "s", "x">>,
     <<".", "j", "s", "x">>, <<".", "p", "y">>, <<".", "j", "a", "v", "a">>,
     <<".", "c", "p", "p">>, <<".", "c">>, <<".", "h">>,
     <<".", "h", "p", "p">>, <<".", "c", "s">>, <<".", "g", "o">>,
     <<".", "r", "s">>, <<".", "r", "b">>, <<".", "p", "h", "p">>,
     <<".", "j", "s", "o", "n">>, <<".", "y", "a", "m", "l">>,
     <<".", "y", "m", "l">>, <<".", "x", "m", "l">>, <<".", "m", "d">>,
     <<".", "t", "x", "t">>, <<".", "s", "q", "l">>}

\* languageMap as pairs <<extension, language>>
languageMap ==
    {
     <<<<".", "t", "s">>, <<"t", "y", "p", "e", "s", "c", "r", "i", "p", "t">>>>,
     <<<<".", "t", "s", "x">>, <<"t", "y", "p", "e", "s", "c", "r", "i", "p", "t">>>>,
     <<<<".", "j", "s">>, <<"j", "a", "v", "a", "s", "c", "r", "i", "p", "t">>>>,
     <<<<".", "j", "s", "x">>, <<"j", "a", "v", "a", "s", "c", "r", "i", "p", "t">>>>,
     <<<<".", "p", "y">>, <<"p", "y", "t", "h", "o", "n">>>>,
     <<<<".", "j", "a", "v", "a">>, <<"j", "a", "v", "a">>>>,
     <<<<".", "c", "p", "p">>, <<"c", "p", "p">>>>,
     <<<<".", "c">>, <<"c">>>>,
     <<<<".", "h">>, <<"c">>>>,
     <<<<".", "h", "p", "p">>, <<"c", "p", "p">>>>,
     <<<<".", "c", "s">>, <<"c", "s", "h", "a", "r", "p">>>>,
     <<<<".", "g", "o">>, <<"g", "o">>>>,
     <<<<".", "r", "s">>, <<"r", "u", "s", "t">>>>,
     <<<<".", "r", "b">>, <<"r", "u", "b", "y">>>>,
     <<<<".", "p", "h", "p">>, <<"p", "h", "p">>>>,
     <<<<".", "j", "s", "o", "n">>, <<"j", "s", "o", "n">>>>,
     <<<<".", "y", "a", "m", "l">>, <<"y", "a", "m", "l">>>>,
     <<<<".", "y", "m", "l">>, <<"y", "a", "m", "l">>>>,
     <<<<".", "x", "m", "l">>, <<"x", "m", "l">>>>,
     <<<<".", "m", "d">>, <<"m", "a", "r", "k", "d", "o", "w", "n">>>>,
     <<<<".", "s", "q", "l">>, <<"s", "q", "l">>>>}

skipDirs ==
    {
     <<"n", "o", "d", "e", "_", "m", "o", "d", "u", "l", "e", "s">>,
     <<".", "g", "i", "t">>, <<".", "s", "v", "n">>, <<"d", "i", "s", "t">>,
     <<"b", "u", "i", "l", "d">>, <<"o", "u", "t">>,
     <<"t", "a", "r", "g", "e", "t">>, <<"b", "i", "n">>, <<"o", "b", "j">>,
     <<".", "v", "s", "c", "o", "d", "e">>, <<".", "i", "d", "e", "a">>,
     <<"_", "_", "p", "y", "c", "a", "c", "h", "e", "_", "_">>,
     <<"c", "o", "v", "e", "r", "a", "g", "e">>,
     <<".", "n", "y", "c", "_", "o", "u", "t", "p", "u", "t">>,
     <<"t", "m", "p">>, <<"t", "e", "m", "p">>, <<"l", "o", "g", "s">>,
     <<"v", "e", "n", "d", "o", "r">>}

\* The languages NewAnalyzerRegistry registers, with the analyzer of each
RegisteredAnalyzers ==
    {<<<<"g", "o">>, "go">>, <<<<"t", "y", "p", "e", "s", "c", "r", "i", "p", "t">>, "typescript">>,
     <<<<"j", "a", "v", "a", "s", "c", "r", "i", "p", "t">>, "typescript">>, <<<<"p", "y", "t", "h", "o", "n">>, "python">>,
     <<<<"j", "a", "v", "a">>, "java">>, <<<<"j", "s", "o", "n">>, "json">>, <<Unknown, "generic">>}

\* Byte-wise order of two strings
TextLess(s, t) ==
    \E i \in 1..(Len(s) + 1) :
        /\ \A j \in 1..(i - 1) : j <= Len(t) /\ s[j] = t[j]
        /\ \/ i = Len(s) + 1 /\ Len(t) > Len(s)
           \/ i <= Len(s) /\ i <= Len(t) /\ AsciiCode[s[i]] < AsciiCode[t[i]]

\* The names in the order os.ReadDir returns them
RECURSIVE SortedNames(_)
SortedNames(names) ==
    IF names = {} THEN <<>>
    ELSE LET first == CHOOSE n \in names : \A m \in names \ {n} : TextLess(n, m)
         IN  <<first>> \o SortedNames(names \ {first})

\* filepath.Join of a clean path and a name
PathJoin(path, name) ==
    IF path = <<".">> THEN name ELSE path \o <<"/">> \o name

\* filepath.Dir of a clean path
Dir(path) ==
    IF LastSlash(path) = 0 THEN <<".">>
    ELSE IF LastSlash(path) = 1 THEN <<"/">>
    ELSE SubSeq(path, 1, LastSlash(path) - 1)

\* filepath.Ext: the suffix of the last element from its last dot
Ext(path) ==
    LET dots == {i \in (LastSlash(path) + 1)..Len(path) : path[i] = "."}
    IN  IF dots = {} THEN <<>>
        ELSE SubSeq(path, CHOOSE i \in dots : \A j \in dots : j <= i, Len(path))

\* strings.HasPrefix, strings.TrimPrefix, strings.Contains
HasPrefix(s, prefix) ==
    Len(prefix) <= Len(s) /\ SubSeq(s, 1, Len(prefix)) = prefix

TrimPrefix(s, prefix) ==
    IF HasPrefix(s, prefix) THEN SubSeq(s, Len(prefix) + 1, Len(s)) ELSE s

Contains(s, substr) ==
    \E i \in 0..(Len(s) - Len(substr)) : SubSeq(s, i + 1, i + Len(substr)) = substr

\* The path of the directory these names lead to from the root
RECURSIVE PathOf(_, _)
PathOf(root, names) ==
    IF names = <<>> THEN root
    ELSE PathJoin(PathOf(root, SubSeq(names, 1, Len(names) - 1)), names[Len(names)])

Node(dir, name, isDir, readable, content) ==
    [dir |-> dir, name |-> name, isDir |-> isDir, readable |-> readable, content |-> content]

NodePath(fs, node) == PathJoin(PathOf(fs.root, node.dir), node.name)

shouldSkipDirectory_ListedOnly(dirName) ==
    dirName # <<".">> /\ dirName \in skipDirs

shouldSkipDirectory(dirName) ==
    IF dirName = <<".">> THEN FALSE
    ELSE dirName \in skipDirs \/ HasPrefix(dirName, <<".">>)

\* "cp.supportedExtensions[ext]"
IsSupported(ext) == ext \in supportedExtensions

\* "language := cp.languageMap[ext]; if language == "" { language = "unknown" }"
LanguageOf(ext) ==
    IF \E pair \in languageMap : pair[1] = ext
    THEN (CHOOSE pair \in languageMap : pair[1] = ext)[2]
    ELSE Unknown

\* CodeProcessor.createCodeFile for a file that can be read
createCodeFile(filePath, content) ==
    [Path |-> filePath, Name |-> Base(filePath), Extension |-> ToLower(Ext(filePath)),
     Language |-> LanguageOf(ToLower(Ext(filePath))), Content |-> content]

NoError == "nil"

\* What one visit of the walk leaves: the files collected, and the error
\* that ends the walk, if any
Walked(files, err) == [files |-> files, err |-> err]

\* The names os.ReadDir finds in the directory these names lead to
Children(fs, names) == {node.name : node \in {n \in fs.nodes : n.dir = names}}

ChildNode(fs, names, name) ==
    CHOOSE node \in fs.nodes : node.dir = names /\ node.name = name

\* The callback of scanDirectory on a file: a file of a supported extension
\* is collected if createCodeFile can read it, and skipped with a warning
\* otherwise
VisitFile(fs, node) ==
    IF IsSupported(ToLower(Ext(NodePath(fs, node)))) /\ node.readable
    THEN Walked(<<createCodeFile(NodePath(fs, node), node.content)>>, NoError)
    ELSE Walked(<<>>, NoError)

\* filepath.WalkDir below the root.  A directory is first handed to the
\* callback, which answers SkipDir for an excluded name; then it is read,
\* and a directory that cannot be read is handed to the callback again with
\* the error, which the callback returns, ending the walk.  An error from an
\* entry ends the walk as well.
RECURSIVE WalkDirectory(_, _), WalkEntries(_, _, _, _)
WalkDirectory(fs, node) ==
    IF shouldSkipDirectory(node.name) THEN Walked(<<>>, NoError)
    ELSE IF ~node.readable THEN Walked(<<>>, "open: permission denied")
    ELSE WalkEntries(fs, node.dir \o <<node.name>>,
                     SortedNames(Children(fs, node.dir \o <<node.name>>)), 1)

WalkEntries(fs, names, entries, i) ==
    IF i > Len(entries) THEN Walked(<<>>, NoError)
    ELSE LET node == ChildNode(fs, names, entries[i])
             this == IF node.isDir THEN WalkDirectory(fs, node) ELSE VisitFile(fs, node)
             rest == WalkEntries(fs, names, entries, i + 1)
         IN  IF this.err # NoError THEN this
             ELSE Walked(this.files \o rest.files, rest.err)

\* CodeProcessor.scanDirectory: the root is never tested for exclusion
\* ("path != dirPath").  A root that cannot be examined or read ends the walk
\* with the error.
scanDirectory(fs) ==
    IF ~fs.rootExists THEN Walked(<<>>, "lstat: no such file or directory")
    ELSE IF ~fs.rootReadable THEN Walked(<<>>, "open: permission denied")
    ELSE WalkEntries(fs, <<>>, SortedNames(Children(fs, <<>>)), 1)

\* graph.CreateRelationship: the relationship with its deterministic ID,
\* the hexadecimal of "source|type|target"
GraphCreateRelationship(source, target, relType, properties) ==
    Relationship(FormatHex(Join(<<source, relType, target>>, <<"|">>)),
                 source, target, relType, 1, properties)

\* The directory of a file and the directories above it, up to ".", "/" or ""
RECURSIVE DirectoriesFrom(_)
DirectoriesFrom(dir) ==
    IF dir \in {<<".">>, <<"/">>, <<>>} THEN {}
    ELSE {dir} \cup DirectoriesFrom(Dir(dir))

\* CodeProcessor.extractDirectories: the keys of the map it fills; the list
\* it returns holds them in the order the range over the map visits them
extractDirectories(files) ==
    UNION {DirectoriesFrom(Dir(files[i].Path)) : i \in 1..Len(files)}

createDirectoryEntity(dirPath, rootPath) ==
    LET relativePath == TrimPrefix(TrimPrefix(dirPath, rootPath), <<"/">>)
        baseName == IF Base(dirPath) \in {<<".">>, <<>>} THEN RootName ELSE Base(dirPath)
    IN  GraphCreateEntity(baseName, DIRECTORY,
            [k \in {"path", "relativePath", "fullPath"} |->
                IF k = "relativePath" THEN relativePath ELSE dirPath])

GetAnalyzer_GoFallback(language) ==
    IF \E pair \in RegisteredAnalyzers : pair[1] = language
    THEN (CHOOSE pair \in RegisteredAnalyzers : pair[1] = language)[2]
    ELSE "go"

\* AnalyzerRegistry.GetAnalyzer: the analyzer registered for the language,
\* and the generic analyzer for a language that has none
GetAnalyzer(language) ==
    IF \E pair \in RegisteredAnalyzers : pair[1] = language
    THEN (CHOOSE pair \in RegisteredAnalyzers : pair[1] = language)[2]
    ELSE "generic"

\* What the analysis of one file returns
Analysis(list, rels) == [entities |-> list, relationships |-> rels]

\* One relationship of this type from the file entity, the first of the
\* list, to each of the entities that follow it
FromFileEntity(list, relType) ==
    [i \in 1..(Len(list) - 1) |->
        GraphCreateRelationship(list[1].ID, list[i + 1].ID, relType, EmptyProperties)]

\* CodeProcessor.analyzeFile: every result the analyzer of the file's
\* language can return.  The files of a scan hold import lines only, and no
\* package.json, TypeScript, JavaScript, Python or Java file.
analyzeFile(file) ==
    LET fileEntity == createFileEntity(file)
        analyzer == GetAnalyzer(file.Language)
    IN  CASE analyzer = "go" ->
                 {Analysis(analyzeGoFile(file, fileEntity, file.Content),
                           FromFileEntity(analyzeGoFile(file, fileEntity, file.Content), IMPORTS))}
          [] analyzer = "json" ->
                 {Analysis(list, FromFileEntity(list, DEPENDS_ON)) :
                     list \in analyzeJSONFile(file, fileEntity, {}, {})}
          [] analyzer = "generic" ->
                 {Analysis(<<fileEntity>>, <<>>)}

\* The last entity of the list that has this type and this path, as the
\* loop of createFileDirectoryRelationships leaves it; 0 for none
LastWithPath(allEntities, type, path) ==
    LET found == {i \in 1..Len(allEntities) :
                     /\ allEntities[i].Type = type
                     /\ Has(allEntities[i].Properties, "path")
                     /\ allEntities[i].Properties["path"] = path}
    IN  IF found = {} THEN 0 ELSE CHOOSE i \in found : \A j \in found : j <= i

createFileDirectoryRelationships_Rebuilt(file, allEntities) ==
    <<GraphCreateRelationship(createDirectoryEntity(Dir(file.Path), <<".">>).ID,
                              createFileEntity(file).ID, CONTAINS, EmptyProperties)>>

createFileDirectoryRelationships(file, allEntities) ==
    LET dirEntity == LastWithPath(allEntities, DIRECTORY, Dir(file.Path))
        fileEntity == LastWithPath(allEntities, FILE, file.Path)
    IN  IF dirEntity # 0 /\ fileEntity # 0
        THEN <<GraphCreateRelationship(allEntities[dirEntity].ID, allEntities[fileEntity].ID,
                                       CONTAINS, EmptyProperties)>>
        ELSE <<>>

\* The elements of a list that satisfy Keep, in their order
RECURSIVE Filter(_, _)
Filter(list, keep) ==
    IF list = <<>> THEN <<>>
    ELSE (IF keep[1] THEN <<list[1]>> ELSE <<>>) \o
         Filter(SubSeq(list, 2, Len(list)), SubSeq(keep, 2, Len(keep)))

\* CodeProcessor.createImportRelationships: each import entity references
\* the first file or module entity whose label and path both contain the
\* import's source
createImportRelationships(list) ==
    LET importEntities == Filter(list, [i \in 1..Len(list) |-> list[i].Type = IMPORT])
        moduleEntities ==
            Filter(list, [i \in 1..Len(list) |-> list[i].Type \in {FILE, MODULE_TYPE}])
        Matches(imp, mod) ==
            /\ Has(imp.Properties, "source")
            /\ Contains(mod.Label, imp.Properties["source"])
            /\ Has(mod.Properties, "path")
            /\ Contains(mod.Properties["path"], imp.Properties["source"])
        First(imp) ==
            LET found == {j \in 1..Len(moduleEntities) : Matches(imp, moduleEntities[j])}
            IN  IF found = {} THEN 0 ELSE CHOOSE j \in found : \A k \in found : j <= k
        linked == Filter(importEntities,
                         [i \in 1..Len(importEntities) |-> First(importEntities[i]) # 0])
    IN  [i \in 1..Len(linked) |->
            GraphCreateRelationship(linked[i].ID, moduleEntities[First(linked[i])].ID,
                                    REFERENCES, EmptyProperties)]

\* What AnalyzeCodebase leaves: the files the scan collected, the result of
\* the analysis of each, the entities, relationships and error returned, and
\* the steps it took, in the order it took them
Outcome(files, analyses, list, rels, err, steps) ==
    [files |-> files, analyses |-> analyses, entities |-> list, relationships |-> rels,
     err |-> err, steps |-> steps]

\* One step of AnalyzeCodebase: the dispatch of a file to its analyzer, the
\* join of a file with its directory, which left this many contains edges, or
\* the linking of the imports
Step(kind, file, edges) == [kind |-> kind, file |-> file, edges |-> edges]

\* The loop of AnalyzeCodebase over the files from the i-th on
RECURSIVE ProcessFiles(_, _, _, _, _, _)
ProcessFiles(files, i, analyses, allEntities, allRelationships, steps) ==
    IF i > Len(files)
    THEN {Outcome(files, analyses, allEntities, allRelationships, NoError, steps)}
    ELSE UNION {
           LET withFile == allEntities \o analysis.entities
               fileRelationships == createFileDirectoryRelationships(files[i], withFile)
           IN  ProcessFiles(files, i + 1,
                   Append(analyses, [file |-> files[i], entities |-> analysis.entities,
                                     relationships |-> analysis.relationships]),
                   withFile,
                   allRelationships \o analysis.relationships \o fileRelationships,
                   steps \o <<Step("dispatch", i, 0),
                              Step("join", i, Len(fileRelationships))>>) :
           analysis \in analyzeFile(files[i])}

\* CodeProcessor.AnalyzeCodebase: every result it can return
AnalyzeCodebase(fs) ==
    LET scan == scanDirectory(fs)
    IN  IF scan.err # NoError
        THEN {Outcome(scan.files, <<>>, <<>>, <<>>, "failed to scan directory", <<>>)}
        ELSE {[out EXCEPT !.relationships = @ \o createImportRelationships(out.entities),
                          !.steps = Append(@, Step("link", 0,
                                               Len(createImportRelationships(out.entities))))] :
                 out \in UNION {
                     ProcessFiles(scan.files, 1, <<>>,
                         [i \in 1..Len(directories) |->
                             createDirectoryEntity(directories[i], fs.root)],
                         <<>>, <<>>) :
                     directories \in Orders(extractDirectories(scan.files))}}

\* The trees scanned: a root and any of these files below it, with the
\* directories that lead to them; at most one thing cannot be read
ImportX == <<Line("import", <<>>, <<"x">>)>>

Roots == {<<"a">>, <<".">>, <<"b", "i", "n">>}

CandidateFiles ==
    {Node(<<>>, <<"y", ".", "g", "o">>, FALSE, TRUE, ImportX),
     Node(<<<<"b">>>>, <<"x", ".", "g", "o">>, FALSE, TRUE, <<>>),
     Node(<<<<"b", "i", "n">>>>, <<"x", ".", "g", "o">>, FALSE, TRUE, <<>>),
     Node(<<<<".", "x">>>>, <<"x", ".", "g", "o">>, FALSE, TRUE, <<>>),
     Node(<<<<"b">>, <<"b", "i", "n">>>>, <<"x", ".", "G", "O">>, FALSE, TRUE, <<>>),
     Node(<<>>, <<"t", ".", "t", "x", "t">>, FALSE, TRUE, <<>>),
     Node(<<>>, <<"c", ".", "c", "p", "p">>, FALSE, TRUE, ImportX),
     Node(<<>>, <<"z", ".", "z", "z">>, FALSE, TRUE, ImportX)}

\* The directories that lead to these files
DirectoryNodes(files) ==
    UNION {{Node(SubSeq(file.dir, 1, k - 1), file.dir[k], TRUE, TRUE, <<>>) :
               k \in 1..Len(file.dir)} : file \in files}

FileSystem(root, rootExists, rootReadable, nodes) ==
    [root |-> root, rootExists |-> rootExists, rootReadable |-> rootReadable, nodes |-> nodes]

Unreadable(nodes, broken) ==
    {IF node = broken THEN [node EXCEPT !.readable = FALSE] ELSE node : node \in nodes}

FileSystemsOver(root, nodes) ==
    {FileSystem(root, TRUE, TRUE, nodes), FileSystem(root, FALSE, TRUE, nodes),
     FileSystem(root, TRUE, FALSE, nodes)} \cup
    {FileSystem(root, TRUE, TRUE, Unreadable(nodes, broken)) : broken \in nodes}

FileSystems ==
    UNION {FileSystemsOver(root, files \cup DirectoryNodes(files)) :
              root \in Roots, files \in SUBSET CandidateFiles}

\* The tree is there before the scan, and the scan leaves it as it is
InitCodebase ==
    /\ entities = EmptyMap
    /\ relationships = EmptyMap
    /\ call = NoCall
    /\ rows = {}
    /\ submitted = NothingSubmitted
    /\ before = [entities |-> EmptyMap, relationships |-> EmptyMap]
    /\ created = <<>>
    /\ threads = [t \in Threads |-> IdleThread]
    /\ mutex = [writer |-> "none", readers |-> {}]
    /\ memgraph = NoMemgraph
    /\ heap = EmptyHeap
    /\ \E fs \in FileSystems : scanned = [op |-> "none", fs |-> fs]

AnalyzeCodebaseCall ==
    /\ \E out \in AnalyzeCodebase(scanned.fs) :
           scanned' = [op |-> "AnalyzeCodebase", fs |-> scanned.fs, files |-> out.files,
                       analyses |-> out.analyses, entities |-> out.entities,
                       relationships |-> out.relationships, err |-> out.err,
                       steps |-> out.steps]
    /\ UNCHANGED <<entities, relationships, call, rows, submitted, before, created,
                   threads, mutex, memgraph, heap>>

NextCodebase == AnalyzeCodebaseCall

SpecCodebase == InitCodebase /\ [][NextCodebase]_vars

---------------------------------------------------------------------------
(* MemgraphDatabase: the second backend.  The server keeps nodes and edges; *)
(* the methods send it Cypher, and what the server does with a query is the *)
(* meaning of its clauses.                                                  *)

\* "MERGE (n:Type:Label {id: $id})" finds or creates the node with these two
\* labels and this id
NodeKey(entity) == <<entity.Type, entity.Label, entity.ID>>

\* MemgraphDatabase.flattenProperties: every key gets the prefix "prop_"
flattenProperties(props) ==
    [key \in {<<"prop_", k>> : k \in DOMAIN props} |-> props[key[2]]]

\* CreateEntity's query on the server: ON CREATE SET, ON MATCH SET with the
\* higher confidence, then "SET n += $properties"
MergeNode(nodes, entity) ==
    IF NodeKey(entity) \in DOMAIN nodes
    THEN Put(nodes, NodeKey(entity),
             [nodes[NodeKey(entity)] EXCEPT
                 !.label = entity.Label,
                 !.confidence = MergeConfidence(@, entity.Confidence),
                 !.properties = MergeProperties(@, flattenProperties(entity.Properties))])
    ELSE Put(nodes, NodeKey(entity),
             [id |-> entity.ID, label |-> entity.Label, confidence |-> entity.Confidence,
              properties |-> flattenProperties(entity.Properties)])

\* What a method of the backend leaves: its error and the database after it
Answer(err, db, found) == [err |-> err, db |-> db, rows |-> found]

\* MemgraphDatabase.CreateEntity: Query fails without a driver
MemgraphCreateEntity(db, entity) ==
    IF db.driver = "nil"
    THEN Answer("failed to create entity", db, 0)
    ELSE Answer("nil", [db EXCEPT !.nodes = MergeNode(@, entity)], 1)

\* "MATCH (source {id: $sourceId})": the nodes with this id
MatchNodes(nodes, id) == {key \in DOMAIN nodes : nodes[key].id = id}

\* The rows "MATCH (source ...) MATCH (target ...)" passes on to MERGE: one
\* for every pair of a source node and a target node; none when either is
\* missing, and then the rest of the query does nothing and nothing fails
MatchedPairs(nodes, relationship) ==
    {<<source, relationship.Type, target>> :
        source \in MatchNodes(nodes, relationship.Source),
        target \in MatchNodes(nodes, relationship.Target)}

\* "MERGE (source)-[r:TYPE]->(target) ON CREATE SET ... ON MATCH SET ...
\*  SET r += $properties" for every row
MergeEdges(db, relationship) ==
    [key \in DOMAIN db.edges \cup MatchedPairs(db.nodes, relationship) |->
        IF key \notin MatchedPairs(db.nodes, relationship) THEN db.edges[key]
        ELSE IF key \in DOMAIN db.edges
        THEN [db.edges[key] EXCEPT
                 !.id = relationship.ID,
                 !.confidence = MergeConfidence(@, relationship.Confidence),
                 !.properties = MergeProperties(@, flattenProperties(relationship.Properties))]
        ELSE [id |-> relationship.ID, confidence |-> relationship.Confidence,
              properties |-> flattenProperties(relationship.Properties)]]

\* MemgraphDatabase.CreateRelationship: the error is Query's, which fails
\* without a driver; the rows the query returned are dropped ("_, err :=")
MemgraphCreateRelationship(db, relationship) ==
    IF db.driver = "nil"
    THEN Answer("failed to create relationship", db, 0)
    ELSE Answer("nil", [db EXCEPT !.edges = MergeEdges(db, relationship)],
                Cardinality(MatchedPairs(db.nodes, relationship)))

\* KnowledgeGraphGenerator.StoreKnowledgeGraph on this backend: the first
\* loop returns at the first error, the second counts the calls without one
RECURSIVE MemgraphStoreEntities(_, _)
MemgraphStoreEntities(db, list) ==
    IF list = <<>> THEN Answer("nil", db, 0)
    ELSE IF MemgraphCreateEntity(db, Head(list)).err # "nil"
    THEN Answer("failed to create/update entity", db, 0)
    ELSE MemgraphStoreEntities(MemgraphCreateEntity(db, Head(list)).db, Tail(list))

RECURSIVE MemgraphStoreRelationships(_, _, _)
MemgraphStoreRelationships(db, list, successfulRelationships) ==
    IF list = <<>> THEN Answer("nil", db, successfulRelationships)
    ELSE MemgraphStoreRelationships(
             MemgraphCreateRelationship(db, Head(list)).db, Tail(list),
             IF MemgraphCreateRelationship(db, Head(list)).err = "nil"
             THEN successfulRelationships + 1 ELSE successfulRelationships)

MemgraphStoreKnowledgeGraph(db, entityList, relationshipList) ==
    IF MemgraphStoreEntities(db, entityList).err # "nil"
    THEN MemgraphStoreEntities(db, entityList)
    ELSE MemgraphStoreRelationships(MemgraphStoreEntities(db, entityList).db,
                                    relationshipList, 0)

MemgraphEntityInputs ==
    {Entity(id, "a", CLASS, 1, EmptyProperties) : id \in EntityIds} \cup
    {Entity("e1", "b", CLASS, MaxConfidence, [k \in {"k1"} |-> 1])}

MemgraphRelationshipInputs ==
    {Relationship("r1", "e1", target, CALLS, confidence, EmptyProperties) :
        target \in EntityIds, confidence \in {1, MaxConfidence}}

MemgraphBatchRelationshipInputs ==
    {Relationship("r1", "e1", target, CALLS, 1, EmptyProperties) : target \in EntityIds}

MemgraphUnchanged ==
    UNCHANGED <<entities, relationships, submitted, before, created, threads, mutex,
                scanned, heap>>

\* MemgraphDatabase.Connect: the driver is kept when the server answers
MemgraphConnectCall ==
    /\ \E answers \in BOOLEAN :
          /\ memgraph' = IF answers THEN [memgraph EXCEPT !.driver = "open"] ELSE memgraph
          /\ call' = CallOf("MemgraphDatabase.Connect", NoEntity, NoRelationship, <<>>, <<>>,
                            IF answers THEN "nil"
                            ELSE "failed to verify Memgraph connectivity")
    /\ rows' = {}
    /\ MemgraphUnchanged

MemgraphDisconnectCall ==
    /\ memgraph' = [memgraph EXCEPT !.driver = "nil"]
    /\ call' = CallOf("MemgraphDatabase.Disconnect", NoEntity, NoRelationship, <<>>, <<>>, "nil")
    /\ rows' = {}
    /\ MemgraphUnchanged

MemgraphCreateEntityCall ==
    /\ \E entity \in MemgraphEntityInputs :
          /\ memgraph' = MemgraphCreateEntity(memgraph, entity).db
          /\ call' = CallOf("MemgraphDatabase.CreateEntity", entity, NoRelationship, <<>>, <<>>,
                            MemgraphCreateEntity(memgraph, entity).err)
    /\ rows' = {}
    /\ MemgraphUnchanged

MemgraphCreateRelationshipCall ==
    /\ \E relationship \in MemgraphRelationshipInputs :
          /\ memgraph' = MemgraphCreateRelationship(memgraph, relationship).db
          /\ call' = CallOf("MemgraphDatabase.CreateRelationship", NoEntity, relationship,
                            <<>>, <<>>, MemgraphCreateRelationship(memgraph, relationship).err)
    /\ rows' = {}
    /\ MemgraphUnchanged

MemgraphStoreKnowledgeGraphCall ==
    /\ \E entityList \in SeqsUpTo(MemgraphEntityInputs, 1) :
       \E relationshipList \in SeqsUpTo(MemgraphBatchRelationshipInputs, MaxBatch) :
          /\ memgraph' = MemgraphStoreKnowledgeGraph(memgraph, entityList, relationshipList).db
          /\ call' = CallOf("StoreKnowledgeGraph", NoEntity, NoRelationship,
                            <<entityList, relationshipList>>, <<>>,
                            MemgraphStoreKnowledgeGraph(memgraph, entityList, relationshipList).err)
          /\ rows' = {[successfulRelationships |->
                          MemgraphStoreKnowledgeGraph(memgraph, entityList, relationshipList).rows]}
    /\ MemgraphUnchanged

NextMemgraph ==
    \/ MemgraphConnectCall
    \/ MemgraphDisconnectCall
    \/ MemgraphCreateEntityCall
    \/ MemgraphCreateRelationshipCall
    \/ MemgraphStoreKnowledgeGraphCall

SpecMemgraph == InitStore /\ [][NextMemgraph]_vars

---------------------------------------------------------------------------
(* The in-memory store on the Go heap.  A Properties value is a reference   *)
(* to a map: copying an Entity copies the reference, not the map.  A        *)
(* reference is the index of its map in heap.maps, and 0 is the nil map.    *)

MaxMaps == 3
MaxHeld == 3

HeapEntity(id, label, type, confidence, ref) ==
    [ID |-> id, Label |-> label, Type |-> type, Confidence |-> confidence, Properties |-> ref]

\* make(Properties), or a map literal: a new map with these contents
Allocate(h, contents) == [h EXCEPT !.maps = Append(@, contents)]

\* The contents a reference leads to; ranging over the nil map visits nothing
Contents(h, ref) == IF ref = 0 THEN EmptyProperties ELSE h.maps[ref]

\* A value in a caller's hands: how the caller came by it, the value, and the
\* contents its property map had at that moment
Held(how, entity, contents) == [how |-> how, entity |-> entity, contents |-> contents]

\* InMemoryDatabase.CreateEntity.  "updatedEntity := existingEntity" copies
\* the reference, so the loop writes into the map the stored entity has; the
\* first entity of an id is stored with the map the caller passed
HeapCreateEntity(h, entity) ==
    IF entity.ID \in DOMAIN h.entities
    THEN LET existingEntity == h.entities[entity.ID]
             made == IF existingEntity.Properties = 0 THEN Allocate(h, EmptyProperties) ELSE h
             ref == IF existingEntity.Properties = 0 THEN Len(made.maps)
                    ELSE existingEntity.Properties
             updatedEntity ==
                 [existingEntity EXCEPT
                     !.Label = entity.Label,
                     !.Confidence = MergeConfidence(@, entity.Confidence),
                     !.Properties = ref]
         IN  [made EXCEPT
                 !.maps[ref] = MergeProperties(@, Contents(h, entity.Properties)),
                 !.entities = Put(@, entity.ID, updatedEntity)]
    ELSE [h EXCEPT !.entities = Put(@, entity.ID, entity)]

HeapIds == {"e1", "e2"}
HeapContents == {EmptyProperties, [k \in {"k1"} |-> 1], [k \in {"k2"} |-> 1]}

HeapUnchanged ==
    UNCHANGED <<entities, relationships, call, rows, submitted, before, created, threads,
                mutex, scanned, memgraph>>

\* A caller builds an entity, with a map of its own or with none, and passes
\* it to CreateEntity; the caller keeps the value
HeapCreateEntityCall ==
    /\ Len(heap.maps) + 2 <= MaxMaps
    /\ \E id \in HeapIds, confidence \in {1} :
       \E contents \in HeapContents, isNil \in BOOLEAN :
          LET h == IF isNil THEN heap ELSE Allocate(heap, contents)
              entity == HeapEntity(id, "a", CLASS, confidence,
                                   IF isNil THEN 0 ELSE Len(h.maps))
          IN  heap' = [HeapCreateEntity(h, entity) EXCEPT
                          !.held = @ \cup {Held("CreateEntity", entity,
                                                Contents(h, entity.Properties))}]
    /\ Cardinality(heap'.held) <= MaxHeld
    /\ HeapUnchanged

\* InMemoryDatabase.GetEntityByID: "return &entity" is a copy of the struct
HeapGetEntityByIDCall ==
    /\ \E id \in DOMAIN heap.entities :
          heap' = [heap EXCEPT
                      !.held = @ \cup {Held("GetEntityByID", heap.entities[id],
                                            Contents(heap, heap.entities[id].Properties))}]
    /\ Cardinality(heap'.held) <= MaxHeld
    /\ HeapUnchanged

\* InMemoryDatabase.GetAllEntities: a slice of copies of the structs
HeapGetAllEntitiesCall ==
    /\ heap' = [heap EXCEPT
                   !.held = @ \cup {Held("GetAllEntities", heap.entities[id],
                                         Contents(heap, heap.entities[id].Properties)) :
                                       id \in DOMAIN heap.entities}]
    /\ Cardinality(heap'.held) <= MaxHeld
    /\ HeapUnchanged

\* InMemoryDatabase.Query("MATCH (n) RETURN n"): one row with a copy of the
\* struct for every entity
HeapQueryCall ==
    /\ heap' = [heap EXCEPT
                   !.held = @ \cup {Held("Query", heap.entities[id],
                                         Contents(heap, heap.entities[id].Properties)) :
                                       id \in DOMAIN heap.entities}]
    /\ Cardinality(heap'.held) <= MaxHeld
    /\ HeapUnchanged

NextHeap ==
    \/ HeapCreateEntityCall
    \/ HeapGetEntityByIDCall
    \/ HeapGetAllEntitiesCall
    \/ HeapQueryCall

SpecHeap == InitStore /\ [][NextHeap]_vars

---------------------------------------------------------------------------
(* The language analyzers.  An analyzer reads a file line by line and tells *)
(* the lines apart with its regular expressions; a line is the kind its     *)
(* analyzer takes it for, with the texts the expression captures.  A Go     *)
(* file here holds import lines, struct declarations and function           *)
(* declarations, and nothing the other expressions of analyzeGoFile match   *)
(* (package clause, interfaces, types, constants, calls).                   *)

FUNCTION == <<"F", "U", "N", "C", "T", "I", "O", "N">>
METHOD == <<"M", "E", "T", "H", "O", "D">>
PROPERTY == <<"P", "R", "O", "P", "E", "R", "T", "Y">>
PACKAGE == <<"P", "A", "C", "K", "A", "G", "E">>
INTERFACE == <<"I", "N", "T", "E", "R", "F", "A", "C", "E">>
TYPE == <<"T", "Y", "P", "E">>
DEFINES == <<"D", "E", "F", "I", "N", "E", "S">>

\* strings.TrimSpace
RECURSIVE TrimSpace(_)
TrimSpace(s) ==
    IF s # <<>> /\ s[1] = " " THEN TrimSpace(Tail(s))
    ELSE IF s # <<>> /\ s[Len(s)] = " " THEN TrimSpace(SubSeq(s, 1, Len(s) - 1))
    ELSE s

\* The length of the longest prefix of s that holds no space
Word(s) ==
    IF \E i \in 1..Len(s) : s[i] = " "
    THEN (CHOOSE i \in 1..Len(s) : s[i] = " " /\ \A j \in 1..(i - 1) : s[j] # " ") - 1
    ELSE Len(s)

\* strings.Fields
RECURSIVE Fields(_)
Fields(s) ==
    IF s = <<>> THEN <<>>
    ELSE IF s[1] = " " THEN Fields(Tail(s))
    ELSE <<SubSeq(s, 1, Word(s))>> \o Fields(SubSeq(s, Word(s) + 1, Len(s)))

\* strings.LastIndex(s, "."): the index from 0 of the last dot, -1 for none
LastIndex(s) ==
    IF \E i \in 1..Len(s) : s[i] = "."
    THEN (CHOOSE i \in 1..Len(s) : s[i] = "." /\ \A j \in (i + 1)..Len(s) : s[j] # ".") - 1
    ELSE -1

extractReceiverType_LastPart(receiver) ==
    IF Fields(TrimSpace(receiver)) = <<>> THEN <<>>
    ELSE Fields(TrimSpace(receiver))[Len(Fields(TrimSpace(receiver)))]

extractReceiverType(receiver) ==
    LET parts == Fields(TrimSpace(receiver))
        typeName == parts[Len(parts)]
        bare == IF HasPrefix(typeName, <<"*">>) THEN Tail(typeName) ELSE typeName
    IN  IF Len(parts) = 0 THEN <<>>
        ELSE IF LastIndex(bare) # -1 THEN SubSeq(bare, LastIndex(bare) + 2, Len(bare))
        ELSE bare

\* The numbers of the lines of this kind, in their order
RECURSIVE LinesOf(_, _, _)
LinesOf(lines, kind, i) ==
    IF i > Len(lines) THEN <<>>
    ELSE (IF lines[i].kind = kind THEN <<i>> ELSE <<>>) \o LinesOf(lines, kind, i + 1)

\* A line "type Name struct"
StructLine(name) == [kind |-> "struct", name |-> name]

\* A line "func (receiver) Name(", or "func Name(" with receiver <<>>; names
\* is the type the receiver was written for
FuncLine(receiver, name, names) ==
    [kind |-> "func", receiver |-> receiver, name |-> name, names |-> names]

GoStruct(name, lineNumber) == [Name |-> name, LineNumber |-> lineNumber]

extractGoStructs(lines) ==
    [k \in 1..Len(LinesOf(lines, "struct", 1)) |->
        GoStruct(lines[LinesOf(lines, "struct", 1)[k]].name, LinesOf(lines, "struct", 1)[k])]

GoFunction(name, lineNumber, receiver) ==
    [Name |-> name, LineNumber |-> lineNumber, Receiver |-> receiver]

extractGoFunctions(lines) ==
    [k \in 1..Len(LinesOf(lines, "func", 1)) |->
        GoFunction(lines[LinesOf(lines, "func", 1)[k]].name, LinesOf(lines, "func", 1)[k],
                   TrimSpace(lines[LinesOf(lines, "func", 1)[k]].receiver))]

GoStructEntity(file, st) ==
    GraphCreateEntity(st.Name, CLASS,
        [k \in {"sourceFile", "lineNumber", "language"} |->
            IF k = "sourceFile" THEN file.Path
            ELSE IF k = "lineNumber" THEN st.LineNumber
            ELSE Language])

GoFunctionEntity(file, fn) ==
    GraphCreateEntity(fn.Name, FUNCTION,
        [k \in {"sourceFile", "lineNumber", "receiver", "language"} |->
            IF k = "sourceFile" THEN file.Path
            ELSE IF k = "lineNumber" THEN fn.LineNumber
            ELSE IF k = "receiver" THEN fn.Receiver
            ELSE Language])

\* "for _, entity := range entities { if entity.Type == EntityTypeClass &&
\* entity.Label == receiverType { ...; break } }": the first, 0 for none
FirstClass(list, receiverType) ==
    LET found == {i \in 1..Len(list) : list[i].Type = CLASS /\ list[i].Label = receiverType}
    IN  IF found = {} THEN 0 ELSE CHOOSE i \in found : \A j \in found : i <= j

\* The edge analyzeGoFile makes for one function, entities being the list
\* with the function's entity appended
GoFunctionEdge(fileEntity, list, fn, funcEntity) ==
    IF fn.Receiver # <<>> /\ FirstClass(list, extractReceiverType(fn.Receiver)) # 0
    THEN GraphCreateRelationship(list[FirstClass(list, extractReceiverType(fn.Receiver))].ID,
                                 funcEntity.ID, CONTAINS, EmptyProperties)
    ELSE GraphCreateRelationship(fileEntity.ID, funcEntity.ID, DEFINES, EmptyProperties)

\* analyzeGoFile on a file of import lines, struct and function declarations:
\* the entities analyzeGoFile makes of the imports, then the structs, then
\* the functions, and an edge for each but the file entity
GoAnalyzerAnalyze(file, fileEntity) ==
    LET imports == analyzeGoFile(file, fileEntity, file.Content)
        structs == extractGoStructs(file.Content)
        functions == extractGoFunctions(file.Content)
        structEntities == [k \in 1..Len(structs) |-> GoStructEntity(file, structs[k])]
        funcEntities == [k \in 1..Len(functions) |-> GoFunctionEntity(file, functions[k])]
        declared == imports \o structEntities
    IN  Analysis(declared \o funcEntities,
                 FromFileEntity(imports, IMPORTS) \o
                 [k \in 1..Len(structEntities) |->
                     GraphCreateRelationship(fileEntity.ID, structEntities[k].ID, DEFINES,
                                             EmptyProperties)] \o
                 [k \in 1..Len(functions) |->
                     GoFunctionEdge(fileEntity, declared \o SubSeq(funcEntities, 1, k),
                                    functions[k], funcEntities[k])])

SourceFile(path, language, content) ==
    [Path |-> path, Name |-> Base(path), Language |-> language, Content |-> content]

TypeNames == {<<"T">>, <<"U">>}

\* The receivers written for a type: with or without a variable, a pointer
\* marker and a package prefix, and with blanks around
ReceiversOf(name) ==
    {variable \o pointer \o prefix \o name \o blank :
        variable \in {<<>>, <<"s", " ">>},
        pointer \in {<<>>, <<"*">>},
        prefix \in {<<>>, <<"p", ".">>},
        blank \in {<<>>, <<" ">>}}

GoDeclarations ==
    {Line("import", <<>>, <<"x">>)} \cup
    {StructLine(name) : name \in TypeNames} \cup
    {FuncLine(<<>>, <<"f">>, <<>>), FuncLine(<<" ">>, <<"f">>, <<>>)} \cup
    UNION {{FuncLine(receiver, <<"f">>, name) : receiver \in ReceiversOf(name)} :
              name \in TypeNames}

GoSourceFiles ==
    {SourceFile(<<"a", ".", "g", "o">>, Language, content) :
        content \in SeqsUpTo(GoDeclarations, MaxLines)}

PythonLanguage == <<"p", "y", "t", "h", "o", "n">>
JavaLanguage == <<"j", "a", "v", "a">>
TypeScriptLanguage == <<"t", "y", "p", "e", "s", "c", "r", "i", "p", "t">>
JavaScriptLanguage == <<"j", "a", "v", "a", "s", "c", "r", "i", "p", "t">>

\* The entity of a declaration: its label, its type, and of its properties
\* those that tell where it was declared
Declared(file, label, type, lineNumber, language) ==
    GraphCreateEntity(label, type,
        [k \in {"sourceFile", "lineNumber", "language"} |->
            IF k = "sourceFile" THEN file.Path
            ELSE IF k = "lineNumber" THEN lineNumber
            ELSE language])

\* The entity of an import: it has no sourceFile
Imported(label, source, lineNumber, language) ==
    GraphCreateEntity(label, IMPORT,
        [k \in {"source", "lineNumber", "language"} |->
            IF k = "source" THEN source
            ELSE IF k = "lineNumber" THEN lineNumber
            ELSE language])

\* One loop of an analyzer over the lines: an entity for every line of the
\* kind, in the order of the lines
EntitiesOfLines(file, kind, type, language) ==
    [k \in 1..Len(LinesOf(file.Content, kind, 1)) |->
        Declared(file, file.Content[LinesOf(file.Content, kind, 1)[k]].name, type,
                 LinesOf(file.Content, kind, 1)[k], language)]

\* An edge of this type from the file entity to each entity of the list
EdgesTo(fileEntity, list, relType) ==
    [k \in 1..Len(list) |->
        GraphCreateRelationship(fileEntity.ID, list[k].ID, relType, EmptyProperties)]

\* A line of a Python file: "class Name:", "def name(" at the margin or
\* indented, "import names" or "from source import names"
ClassLine(name) == [kind |-> "class", name |-> name]
DefLine(name, indented) == [kind |-> IF indented THEN "method" ELSE "def", name |-> name]
ImportLine(name, source) == [kind |-> "imported", name |-> name, source |-> source]

\* The second loop of analyzePythonFile: a function and a defines edge for a
\* def at the margin, a method and no edge for an indented def
RECURSIVE PythonFunctions(_, _, _)
PythonFunctions(file, fileEntity, i) ==
    IF i > Len(file.Content) THEN Analysis(<<>>, <<>>)
    ELSE LET rest == PythonFunctions(file, fileEntity, i + 1)
             name == file.Content[i].name
         IN  IF file.Content[i].kind = "def"
             THEN Analysis(
                      <<Declared(file, name, FUNCTION, i, PythonLanguage)>> \o rest.entities,
                      <<GraphCreateRelationship(fileEntity.ID,
                            Declared(file, name, FUNCTION, i, PythonLanguage).ID,
                            DEFINES, EmptyProperties)>> \o rest.relationships)
             ELSE IF file.Content[i].kind = "method"
             THEN Analysis(<<Declared(file, name, METHOD, i, PythonLanguage)>> \o rest.entities,
                           rest.relationships)
             ELSE rest

ImportEntities(file, language) ==
    [k \in 1..Len(LinesOf(file.Content, "imported", 1)) |->
        Imported(file.Content[LinesOf(file.Content, "imported", 1)[k]].name,
                 file.Content[LinesOf(file.Content, "imported", 1)[k]].source,
                 LinesOf(file.Content, "imported", 1)[k], language)]

analyzePythonFile(file, fileEntity) ==
    LET classes == EntitiesOfLines(file, "class", CLASS, PythonLanguage)
        functions == PythonFunctions(file, fileEntity, 1)
        imports == ImportEntities(file, PythonLanguage)
    IN  Analysis(<<fileEntity>> \o classes \o functions.entities \o imports,
                 EdgesTo(fileEntity, classes, DEFINES) \o functions.relationships \o
                 EdgesTo(fileEntity, imports, IMPORTS))

\* A line of a Java file: "package name;", "import source;", a class
\* declaration, or a method declaration "public type name("
PackageLine(name) == [kind |-> "package", name |-> name]
MethodLine(name) == [kind |-> "method", name |-> name]

\* The import lines of a Java file: the label is the last part of the path
\* imported, filepath.Base(strings.Replace(importPath, ".", "/", -1))
ReplaceDots(s) == [i \in 1..Len(s) |-> IF s[i] = "." THEN "/" ELSE s[i]]

JavaImportEntities(file) ==
    [k \in 1..Len(LinesOf(file.Content, "imported", 1)) |->
        Imported(Base(ReplaceDots(file.Content[LinesOf(file.Content, "imported", 1)[k]].source)),
                 file.Content[LinesOf(file.Content, "imported", 1)[k]].source,
                 LinesOf(file.Content, "imported", 1)[k], JavaLanguage)]

analyzeJavaFile(file, fileEntity) ==
    LET packages == EntitiesOfLines(file, "package", PACKAGE, JavaLanguage)
        imports == JavaImportEntities(file)
        classes == EntitiesOfLines(file, "class", CLASS, JavaLanguage)
        methods == EntitiesOfLines(file, "method", METHOD, JavaLanguage)
    IN  Analysis(<<fileEntity>> \o packages \o imports \o classes \o methods,
                 EdgesTo(fileEntity, packages, DEFINES) \o
                 EdgesTo(fileEntity, imports, IMPORTS) \o
                 EdgesTo(fileEntity, classes, DEFINES))

\* A line of a TypeScript or JavaScript file: "import name from 'source'", a
\* class declaration, "function name(", "interface Name", "type Name = ..."
FunctionLine(name) == [kind |-> "function", name |-> name]
InterfaceLine(name) == [kind |-> "interface", name |-> name]
TypeLine(name) == [kind |-> "type", name |-> name]

\* extractTypeScriptClasses: every class has "Methods: []TypeScriptMethod{}"
\* and "Properties: []TypeScriptProperty{}"
TypeScriptClass(name, lineNumber) ==
    [Name |-> name, LineNumber |-> lineNumber, Methods |-> <<>>, Properties |-> <<>>]

extractTypeScriptClasses(lines) ==
    [k \in 1..Len(LinesOf(lines, "class", 1)) |->
        TypeScriptClass(lines[LinesOf(lines, "class", 1)[k]].name, LinesOf(lines, "class", 1)[k])]

\* The body of the loop over the classes: the class with a defines edge
\* from the file, its methods and then its properties, each with a contains
\* edge from the class
RECURSIVE TypeScriptClasses(_, _, _, _)
TypeScriptClasses(file, fileEntity, classes, i) ==
    IF i > Len(classes) THEN Analysis(<<>>, <<>>)
    ELSE LET rest == TypeScriptClasses(file, fileEntity, classes, i + 1)
             cls == classes[i]
             classEntity == Declared(file, cls.Name, CLASS, cls.LineNumber, file.Language)
             methods == [k \in 1..Len(cls.Methods) |->
                            Declared(file, cls.Methods[k].Name, METHOD,
                                     cls.Methods[k].LineNumber, file.Language)]
             properties == [k \in 1..Len(cls.Properties) |->
                               Declared(file, cls.Properties[k].Name, PROPERTY,
                                        cls.Properties[k].LineNumber, file.Language)]
         IN  Analysis(<<classEntity>> \o methods \o properties \o rest.entities,
                      EdgesTo(fileEntity, <<classEntity>>, DEFINES) \o
                      EdgesTo(classEntity, methods, CONTAINS) \o
                      EdgesTo(classEntity, properties, CONTAINS) \o rest.relationships)

analyzeTypeScriptFile(file, fileEntity) ==
    LET imports == ImportEntities(file, file.Language)
        classes == TypeScriptClasses(file, fileEntity, extractTypeScriptClasses(file.Content), 1)
        functions == EntitiesOfLines(file, "function", FUNCTION, file.Language)
        interfaces == EntitiesOfLines(file, "interface", INTERFACE, file.Language)
        types == EntitiesOfLines(file, "type", TYPE, file.Language)
    IN  Analysis(<<fileEntity>> \o imports \o classes.entities \o functions \o interfaces \o types,
                 EdgesTo(fileEntity, imports, IMPORTS) \o classes.relationships \o
                 EdgesTo(fileEntity, functions, DEFINES) \o
                 EdgesTo(fileEntity, interfaces, DEFINES) \o
                 EdgesTo(fileEntity, types, DEFINES))

\* GenericAnalyzer.Analyze
GenericAnalyzerAnalyze(file, fileEntity) == Analysis(<<fileEntity>>, <<>>)

PythonLines ==
    {ClassLine(<<"T">>), DefLine(<<"f">>, FALSE), DefLine(<<"f">>, TRUE),
     DefLine(<<"g">>, TRUE), ImportLine(<<"x">>, <<"x">>), ImportLine(<<"x">>, <<"p">>)}

JavaLines ==
    {PackageLine(<<"p">>), ImportLine(<<"x">>, <<"p", ".", "x">>), ClassLine(<<"T">>),
     MethodLine(<<"f">>), MethodLine(<<"g">>)}

TypeScriptLines ==
    {ImportLine(<<"x">>, <<"x">>), ClassLine(<<"T">>), FunctionLine(<<"f">>),
     InterfaceLine(<<"T">>), TypeLine(<<"T">>)}

PythonSourceFiles ==
    {SourceFile(<<"a", ".", "p", "y">>, PythonLanguage, content) :
        content \in SeqsUpTo(PythonLines, MaxLines)}

JavaSourceFiles ==
    {SourceFile(<<"a", ".", "j", "a", "v", "a">>, JavaLanguage, content) :
        content \in SeqsUpTo(JavaLines, MaxLines)}

TypeScriptSourceFiles ==
    {SourceFile(<<"a", ".", "t", "s">>, TypeScriptLanguage, content) :
        content \in SeqsUpTo(TypeScriptLines, MaxLines)} \cup
    {SourceFile(<<"a", ".", "j", "s">>, JavaScriptLanguage, content) :
        content \in SeqsUpTo(TypeScriptLines, MaxLines)}

---------------------------------------------------------------------------
(* JSONAnalyzer: encoding/json on the content of a package.json.  The       *)
(* content is its JSON tokens; a string token has its text.                 *)

Token(t, v) == [t |-> t, v |-> v]
Open == Token("{", <<>>)
Close == Token("}", <<>>)
Colon == Token(":", <<>>)
Comma == Token(",", <<>>)

\* A decoded value, as Unmarshal stores it in an interface{}: a string, a
\* float64, nil, or a map[string]interface{}
JSONValue(kind, text, members) == [kind |-> kind, text |-> text, members |-> members]

Parsed(value, next) == [ok |-> TRUE, value |-> value, next |-> next]
Failed == [ok |-> FALSE, value |-> JSONValue("null", <<>>, <<>>), next |-> 0]

\* The value that begins at token i, and the token after it; of two members
\* with one key the later stays
RECURSIVE ParseValue(_, _)
RECURSIVE ParseMembers(_, _, _)
ParseValue(tokens, i) ==
    IF i > Len(tokens) THEN Failed
    ELSE IF tokens[i].t = "str" THEN Parsed(JSONValue("string", tokens[i].v, <<>>), i + 1)
    ELSE IF tokens[i].t = "num" THEN Parsed(JSONValue("number", <<>>, <<>>), i + 1)
    ELSE IF tokens[i].t = "null" THEN Parsed(JSONValue("null", <<>>, <<>>), i + 1)
    ELSE IF tokens[i].t = "{"
    THEN IF i + 1 <= Len(tokens) /\ tokens[i + 1].t = "}"
         THEN Parsed(JSONValue("object", <<>>, <<>>), i + 2)
         ELSE ParseMembers(tokens, i + 1, <<>>)
    ELSE Failed

ParseMembers(tokens, i, members) ==
    IF i + 1 > Len(tokens) \/ tokens[i].t # "str" \/ tokens[i + 1].t # ":" THEN Failed
    ELSE LET member == ParseValue(tokens, i + 2)
         IN  IF ~member.ok \/ member.next > Len(tokens) THEN Failed
             ELSE IF tokens[member.next].t = "}"
             THEN Parsed(JSONValue("object", <<>>, Put(members, tokens[i].v, member.value)),
                         member.next + 1)
             ELSE IF tokens[member.next].t = ","
             THEN ParseMembers(tokens, member.next + 1, Put(members, tokens[i].v, member.value))
             ELSE Failed

Decoded(err, packageData) == [err |-> err, packageData |-> packageData]

Unmarshal_Completed(content) ==
    LET parsed == ParseValue(content, 1)
        closed == ParseValue(content \o <<Close>>, 1)
    IN  IF parsed.ok /\ parsed.next = Len(content) + 1 /\ parsed.value.kind = "object"
        THEN Decoded(NoError, parsed.value.members)
        ELSE IF closed.ok /\ closed.value.kind = "object"
        THEN Decoded(NoError, closed.value.members)
        ELSE Decoded("error", <<>>)

\* json.Unmarshal([]byte(file.Content), &packageData), packageData being a
\* map[string]interface{}: an error for content that is not one JSON value
\* and for a value that is no object; null leaves the map nil
Unmarshal(content) ==
    LET parsed == ParseValue(content, 1)
    IN  IF ~parsed.ok \/ parsed.next # Len(content) + 1 THEN Decoded("error", <<>>)
        ELSE IF parsed.value.kind = "object" THEN Decoded(NoError, parsed.value.members)
        ELSE IF parsed.value.kind = "null" THEN Decoded(NoError, <<>>)
        ELSE Decoded("error", <<>>)

DependenciesKey == <<"d", "e", "p", "e", "n", "d", "e", "n", "c", "i", "e", "s">>
DevDependenciesKey ==
    <<"d", "e", "v", "D", "e", "p", "e", "n", "d", "e", "n", "c", "i", "e", "s">>

\* 'if deps, ok := packageData[key].(map[string]interface{}); ok' and
\* 'if versionStr, ok := version.(string); ok': the names with a string
StringMembers(packageData, key) ==
    IF key \in DOMAIN packageData /\ packageData[key].kind = "object"
    THEN {name \in DOMAIN packageData[key].members :
             packageData[key].members[name].kind = "string"}
    ELSE {}

\* JSONAnalyzer.Analyze: every result it can return.  Every version in the
\* manifests here is "1"
JSONAnalyzerAnalyze(file, fileEntity) ==
    LET decoded == IF file.Name = PackageJSON THEN Unmarshal(file.Content)
                   ELSE Decoded("error", <<>>)
        packageData == IF decoded.err = NoError THEN decoded.packageData ELSE <<>>
    IN  {Analysis(list, FromFileEntity(list, DEPENDS_ON)) :
            list \in analyzeJSONFile(file, fileEntity,
                                     StringMembers(packageData, DependenciesKey),
                                     StringMembers(packageData, DevDependenciesKey))}

\* A JSON text as it is written: the members of an object in their order
Written(kind, text, members) == [kind |-> kind, text |-> text, members |-> members]
WrittenString == Written("string", Version, <<>>)
WrittenNumber == Written("number", <<>>, <<>>)
WrittenNull == Written("null", <<>>, <<>>)
WrittenObject(members) == Written("object", <<>>, members)

DependencyObjects ==
    {WrittenObject(<<>>),
     WrittenObject(<<<<<<"x">>, WrittenString>>>>),
     WrittenObject(<<<<<<"x">>, WrittenNumber>>>>),
     WrittenObject(<<<<<<"x">>, WrittenString>>, <<<<"y">>, WrittenString>>>>)}

Manifests ==
    {WrittenNull, WrittenString, WrittenObject(<<>>),
     WrittenObject(<<<<DependenciesKey, WrittenString>>>>)} \cup
    {WrittenObject(<<<<key, object>>>>) :
        key \in {DependenciesKey, DevDependenciesKey}, object \in DependencyObjects} \cup
    {WrittenObject(<<<<DependenciesKey, object>>,
                     <<DevDependenciesKey, WrittenObject(<<<<<<"x">>, WrittenString>>>>)>>>>) :
        object \in DependencyObjects}

\* The tokens of a text
RECURSIVE Tokens(_)
RECURSIVE MemberTokens(_, _)
Tokens(written) ==
    IF written.kind = "string" THEN <<Token("str", written.text)>>
    ELSE IF written.kind = "number" THEN <<Token("num", <<>>)>>
    ELSE IF written.kind = "null" THEN <<Token("null", <<>>)>>
    ELSE <<Open>> \o MemberTokens(written.members, 1) \o <<Close>>

MemberTokens(members, i) ==
    IF i > Len(members) THEN <<>>
    ELSE <<Token("str", members[i][1]), Colon>> \o Tokens(members[i][2]) \o
         (IF i < Len(members) THEN <<Comma>> ELSE <<>>) \o MemberTokens(members, i + 1)

WellFormedContents == {Tokens(written) : written \in Manifests}

\* A text cut short, and a text with one token missing
Damaged(tokens) ==
    {SubSeq(tokens, 1, k) : k \in 0..(Len(tokens) - 1)} \cup
    {SubSeq(tokens, 1, k - 1) \o SubSeq(tokens, k + 1, Len(tokens)) : k \in 1..Len(tokens)}

JSONContents == WellFormedContents \cup UNION {Damaged(tokens) : tokens \in WellFormedContents}

JSONSourceFiles ==
    {SourceFile(path, JSONLanguage, content) :
        path \in {PackageJSON, <<"c", ".", "j", "s", "o", "n">>},
        content \in JSONContents}

GenericSourceFiles ==
    {SourceFile(<<"a", ".", "c", "p", "p">>, <<"c", "p", "p">>, content) :
        content \in SeqsUpTo(GoDeclarations, 1)} \cup
    {SourceFile(<<"a", ".", "z", "z">>, Unknown, content) :
        content \in SeqsUpTo(PythonLines, 1)}

SourceFiles ==
    GoSourceFiles \cup PythonSourceFiles \cup JavaSourceFiles \cup TypeScriptSourceFiles \cup
    JSONSourceFiles \cup GenericSourceFiles

\* The file is there before the analysis
InitAnalyze ==
    /\ entities = EmptyMap
    /\ relationships = EmptyMap
    /\ call = NoCall
    /\ rows = {}
    /\ submitted = NothingSubmitted
    /\ before = [entities |-> EmptyMap, relationships |-> EmptyMap]
    /\ created = <<>>
    /\ threads = [t \in Threads |-> IdleThread]
    /\ mutex = [writer |-> "none", readers |-> {}]
    /\ memgraph = NoMemgraph
    /\ heap = EmptyHeap
    /\ \E file \in SourceFiles : scanned = [op |-> "none", file |-> file]

\* CodeProcessor.analyzeFile on one file: the analyzer the registry has for
\* the language of the file is given the file and its file entity
Returned(analyzer, file, fileEntity, analysis) ==
    [op |-> "Analyze", analyzer |-> analyzer, file |-> file, fileEntity |-> fileEntity,
     entities |-> analysis.entities, relationships |-> analysis.relationships,
     err |-> NoError]

AnalyzeUnchanged ==
    UNCHANGED <<entities, relationships, call, rows, submitted, before, created, threads,
                mutex, memgraph, heap>>

GoAnalyzerAnalyzeCall ==
    /\ GetAnalyzer(scanned.file.Language) = "go"
    /\ scanned' = Returned("go", scanned.file, createFileEntity(scanned.file),
                           GoAnalyzerAnalyze(scanned.file, createFileEntity(scanned.file)))
    /\ AnalyzeUnchanged

TypeScriptAnalyzerAnalyzeCall ==
    /\ GetAnalyzer(scanned.file.Language) = "typescript"
    /\ scanned' = Returned("typescript", scanned.file, createFileEntity(scanned.file),
                           analyzeTypeScriptFile(scanned.file, createFileEntity(scanned.file)))
    /\ AnalyzeUnchanged

PythonAnalyzerAnalyzeCall ==
    /\ GetAnalyzer(scanned.file.Language) = "python"
    /\ scanned' = Returned("python", scanned.file, createFileEntity(scanned.file),
                           analyzePythonFile(scanned.file, createFileEntity(scanned.file)))
    /\ AnalyzeUnchanged

JavaAnalyzerAnalyzeCall ==
    /\ GetAnalyzer(scanned.file.Language) = "java"
    /\ scanned' = Returned("java", scanned.file, createFileEntity(scanned.file),
                           analyzeJavaFile(scanned.file, createFileEntity(scanned.file)))
    /\ AnalyzeUnchanged

JSONAnalyzerAnalyzeCall ==
    /\ GetAnalyzer(scanned.file.Language) = "json"
    /\ \E analysis \in JSONAnalyzerAnalyze(scanned.file, createFileEntity(scanned.file)) :
           scanned' = Returned("json", scanned.file, createFileEntity(scanned.file), analysis)
    /\ AnalyzeUnchanged

GenericAnalyzerAnalyzeCall ==
    /\ GetAnalyzer(scanned.file.Language) = "generic"
    /\ scanned' = Returned("generic", scanned.file, createFileEntity(scanned.file),
                           GenericAnalyzerAnalyze(scanned.file, createFileEntity(scanned.file)))
    /\ AnalyzeUnchanged

NextAnalyze ==
    \/ GoAnalyzerAnalyzeCall
    \/ TypeScriptAnalyzerAnalyzeCall
    \/ PythonAnalyzerAnalyzeCall
    \/ JavaAnalyzerAnalyzeCall
    \/ JSONAnalyzerAnalyzeCall
    \/ GenericAnalyzerAnalyzeCall

SpecAnalyze == InitAnalyze /\ [][NextAnalyze]_vars

---------------------------------------------------------------------------
(* Claims about the store *)

SetMax(S) == CHOOSE x \in S : \A y \in S : y <= x

SameEdge(r1, r2) ==
    r1.Source = r2.Source /\ r1.Target = r2.Target /\ r1.Type = r2.Type

\* C1. Idempotent merge: storing a batch a second time leaves the store as the
\* first run left it: the same entity ids, the same relationship ids, and the
\* same label, confidence and property values for every record.
C1_IdempotentMerge ==
    call.op = "StoreKnowledgeGraphAgain" =>
        /\ entities = before.entities
        /\ relationships = before.relationships

\* C2. Referential integrity on write: a CreateRelationship whose source id or
\* target id is not the id of a stored entity returns an error and leaves the
\* entities and the relationships exactly as they were before the call.
C2_ReferentialIntegrityOnWrite ==
    [][(/\ call'.op = "CreateRelationship"
        /\ \/ call'.relationship.Source \notin DOMAIN entities
           \/ call'.relationship.Target \notin DOMAIN entities)
       => (/\ call'.err # "nil"
           /\ entities' = entities
           /\ relationships' = relationships)]_vars

\* C2 happens: with the source stored and a relationship stored, a call whose
\* target is missing has returned its error.
C2_Witness ==
    /\ call.op = "CreateRelationship"
    /\ call.err = "target entity not found"
    /\ call.relationship.Source \in DOMAIN entities
    /\ call.relationship.Target \notin DOMAIN entities
    /\ DOMAIN relationships # {}

\* C3. No dangling edge: in every reachable state of the store every stored
\* relationship has a source id and a target id that are ids of stored entities.
C3_NoDanglingEdge ==
    \A id \in DOMAIN relationships :
        /\ relationships[id].Source \in DOMAIN entities
        /\ relationships[id].Target \in DOMAIN entities

\* C3 happens: a batch stored its first relationship and then failed on the
\* next one, whose endpoint is missing.
C3_Witness ==
    /\ call.op = "CreateRelationships"
    /\ call.err # "nil"
    /\ Len(call.list) = 2
    /\ call.list[1].ID \in DOMAIN relationships
    /\ relationships[call.list[1].ID] = call.list[1]
    /\ call.list[2].ID \notin DOMAIN relationships

\* C4. Confidence monotonicity: the stored confidence of an entity is the
\* maximum of the confidences CreateEntity was called with for its id, and the
\* stored confidence of an id never decreases.
C4_ConfidenceIsMax ==
    \A id \in DOMAIN entities :
        /\ submitted[id] # {}
        /\ entities[id].Confidence = SetMax(submitted[id])

C4_ConfidenceMonotonicity ==
    /\ []C4_ConfidenceIsMax
    /\ [][\A id \in (DOMAIN entities) \cap (DOMAIN entities') :
            entities'[id].Confidence >= entities[id].Confidence]_vars

\* C4 happens: an id was upserted with a higher and then with a lower
\* confidence, and another id was upserted too.
C4_Witness ==
    /\ call.op = "CreateEntity"
    /\ call.entity.Confidence = 1
    /\ submitted[call.entity.ID] = {1, 2}
    /\ entities[call.entity.ID].Confidence = 2
    /\ DOMAIN entities = EntityIds

\* C5. Entity merge rule: CreateEntity on an id that is not stored inserts the
\* entity as given; on a stored id the label becomes the incoming label and
\* the properties become the key-by-key merge: every incoming key takes the
\* incoming value, every key only the stored record has keeps its value, and
\* no key is removed.
C5_EntityMergeRule ==
    [][call'.op = "CreateEntity" =>
        LET entity == call'.entity
            id == entity.ID
        IN  /\ id \in DOMAIN entities'
            /\ IF id \notin DOMAIN entities
               THEN entities'[id] = entity
               ELSE /\ entities'[id].Label = entity.Label
                    /\ DOMAIN entities'[id].Properties =
                         (DOMAIN entities[id].Properties) \cup (DOMAIN entity.Properties)
                    /\ \A k \in DOMAIN entity.Properties :
                         entities'[id].Properties[k] = entity.Properties[k]
                    /\ \A k \in (DOMAIN entities[id].Properties) \ (DOMAIN entity.Properties) :
                         entities'[id].Properties[k] = entities[id].Properties[k]]_vars

\* C5 happens: an upsert of a stored id changed the label, overwrote one key
\* and kept a key that only the stored record had.
C5_Witness ==
    /\ call.op = "CreateEntity"
    /\ call.entity.Label = "b"
    /\ call.entity.Properties = [k \in {"k1"} |-> 2]
    /\ entities[call.entity.ID].Label = "b"
    /\ entities[call.entity.ID].Properties = [k \in {"k1", "k2"} |-> IF k = "k1" THEN 2 ELSE 1]
    /\ submitted[call.entity.ID] = {1, 2}

\* C6. Edge de-duplication: in every reachable state at most one stored
\* relationship has a given (source, target, type) triple.
C6_OneRelationshipPerEdge ==
    \A id1 \in DOMAIN relationships : \A id2 \in DOMAIN relationships :
        SameEdge(relationships[id1], relationships[id2]) => id1 = id2

\* C7. A CreateRelationship whose id is already a key of the store, with both
\* endpoints stored, merges into the stored record: its confidence becomes the
\* maximum of the stored and the incoming one, its properties are merged key by
\* key with the incoming values winning, and the record is not replaced by the
\* incoming one.  (Stated for the ids other than the empty string.)
C7_SameIdMerges ==
    [][(/\ call'.op = "CreateRelationship"
        /\ call'.err = "nil"
        /\ call'.relationship.ID # ""
        /\ call'.relationship.ID \in DOMAIN relationships)
       => LET incoming == call'.relationship
              stored == relationships[incoming.ID]
              result == relationships'[incoming.ID]
          IN  /\ result.Confidence = SetMax({stored.Confidence, incoming.Confidence})
              /\ DOMAIN result.Properties =
                    (DOMAIN stored.Properties) \cup (DOMAIN incoming.Properties)
              /\ \A k \in DOMAIN incoming.Properties :
                    result.Properties[k] = incoming.Properties[k]
              /\ \A k \in (DOMAIN stored.Properties) \ (DOMAIN incoming.Properties) :
                    result.Properties[k] = stored.Properties[k]]_vars

\* Two characters that are the same letter, in whichever case
SameLetter(c, d) ==
    \/ c = d
    \/ \E i \in 1..26 : {c, d} = {UpperLetters[i], LowerLetters[i]}

SameIgnoringCase(s, t) ==
    /\ Len(s) = Len(t)
    /\ \A i \in 1..Len(s) : SameLetter(s[i], t[i])

TextDiscriminators == {"fullPath", "path", "relativePath", "sourceFile", "namespace", "package"}

\* Two property maps with the same discriminators up to letter case; the
\* line number counts with a source file
SameDiscriminators(p, q) ==
    /\ \A k \in TextDiscriminators :
            /\ Has(p, k) <=> Has(q, k)
            /\ Has(p, k) /\ Has(q, k) => SameIgnoringCase(p[k], q[k])
    /\ Has(p, "sourceFile") =>
            /\ Has(p, "lineNumber") <=> Has(q, "lineNumber")
            /\ Has(p, "lineNumber") /\ Has(q, "lineNumber") => p["lineNumber"] = q["lineNumber"]

GraphCalls == {i \in 1..Len(created) : created[i].op = "graph.CreateEntity"}

\* C8. Deterministic, case-insensitive identity: two calls of graph.CreateEntity
\* whose types, labels and discriminator properties (fullPath, path,
\* relativePath, sourceFile with lineNumber, namespace, package) agree up to
\* letter case return the same id, whatever the other properties are, and every
\* returned entity carries the label exactly as it was passed in.
C8_DeterministicIdentity ==
    \A i, j \in GraphCalls :
        /\ created[i].entities[1].Label = created[i].label
        /\ (/\ SameIgnoringCase(created[i].entities[1].Type, created[j].entities[1].Type)
            /\ SameIgnoringCase(created[i].label, created[j].label)
            /\ SameDiscriminators(created[i].entities[1].Properties,
                                  created[j].entities[1].Properties))
           => created[i].entities[1].ID = created[j].entities[1].ID

\* Two calls that differ in the case of the type, of the label and of the
\* source file, on the same line, have returned one id and both labels
C8_Witness ==
    /\ GraphCalls = {1, 2}
    /\ created[1].label # created[2].label
    /\ created[1].entities[1].Label = <<"A">>
    /\ created[2].entities[1].Label = <<"a">>
    /\ created[1].entities[1].Type # created[2].entities[1].Type
    /\ Has(created[1].entities[1].Properties, "lineNumber")
    /\ Has(created[1].entities[1].Properties, "sourceFile")
    /\ Has(created[2].entities[1].Properties, "sourceFile")
    /\ created[1].entities[1].Properties["sourceFile"] # created[2].entities[1].Properties["sourceFile"]
    /\ SameDiscriminators(created[1].entities[1].Properties, created[2].entities[1].Properties)
    /\ created[1].entities[1].ID = created[2].entities[1].ID

\* The entities the recorded analyzer calls returned: <<call, index>>
Analyzed ==
    {<<i, j>> : i \in {c \in 1..Len(created) : created[c].op # "graph.CreateEntity"},
                j \in 1..MaxLines + 1} \cap
    UNION {{<<i, j>> : j \in 1..Len(created[i].entities)} : i \in 1..Len(created)}

\* Two entities made for different constructs: in different files, or at
\* different places of one file in one pass over it
DifferentConstructs(a, b) ==
    IF a[1] = b[1] THEN a[2] # b[2] ELSE created[a[1]].file # created[b[1]].file

\* C9. No identity collision: two entities the analyzers make for different
\* constructs that share type and label, in different files or on different
\* lines of one file, never have the same id.
C9_NoIdentityCollision ==
    \A a, b \in Analyzed :
        (/\ DifferentConstructs(a, b)
         /\ created[a[1]].entities[a[2]].Type = created[b[1]].entities[b[2]].Type
         /\ created[a[1]].entities[a[2]].Label = created[b[1]].entities[b[2]].Label)
        => created[a[1]].entities[a[2]].ID # created[b[1]].entities[b[2]].ID

\* C10. The 'entities of type T' query that FindEntitiesByType builds returns
\* exactly one row for each stored entity whose type is T and no other row.
C10_EntitiesOfTypeQuery ==
    call.op = "FindEntitiesByType" =>
        rows = {[n |-> entities[id]] :
                    id \in {x \in DOMAIN entities : entities[x].Type = EntityTypeAsked(call)}}

RECURSIVE SumCounts(_)
SumCounts(stats) ==
    IF stats = {} THEN 0
    ELSE LET stat == CHOOSE x \in stats : TRUE
         IN  stat.count + SumCounts(stats \ {stat})

\* C11. The rows of the entity-type histogram query are one per distinct
\* stored type and their counts sum to the number of stored entities, and
\* GetGraphStatistics reports TotalEntities and TotalRelationships equal to
\* the numbers of stored entities and of stored relationships.
C11_HistogramTotals ==
    /\ (call.op = "Query" /\ call.cypher = EntityStatsQuery) =>
            /\ SumCounts(rows) = Cardinality(DOMAIN entities)
            /\ {stat.type : stat \in rows} = {entities[id].Type : id \in DOMAIN entities}
            /\ Cardinality(rows) = Cardinality({entities[id].Type : id \in DOMAIN entities})
    /\ call.op = "GetGraphStatistics" =>
            \A statistics \in rows :
                /\ statistics.TotalEntities = Cardinality(DOMAIN entities)
                /\ statistics.TotalRelationships = Cardinality(DOMAIN relationships)

\* GetGraphStatistics has returned on a store with two entities of one type
\* and a relationship
C11_Witness ==
    /\ call.op = "GetGraphStatistics"
    /\ Cardinality(DOMAIN entities) = 2
    /\ Cardinality({entities[id].Type : id \in DOMAIN entities}) = 1
    /\ Cardinality(DOMAIN relationships) >= 2
    /\ \E statistics \in rows : statistics.TotalEntities = 2

\* C12. Every row of the 'all relationships with endpoints' query carries the
\* source entity and the target entity of its relationship, both of which are
\* rows of the 'all entities' query on the same state, and there is exactly
\* one row for every stored relationship.
C12_RelationshipRows ==
    (call.op = "Query" /\ call.cypher = AllRelationshipsQuery) =>
        /\ \A row \in rows :
                /\ row.a.ID = row.r.Source
                /\ row.b.ID = row.r.Target
                /\ [n |-> row.a] \in Query(entities, relationships, AllEntitiesQuery)
                /\ [n |-> row.b] \in Query(entities, relationships, AllEntitiesQuery)
        /\ {row.r : row \in rows} = {relationships[id] : id \in DOMAIN relationships}
        /\ Cardinality(rows) = Cardinality(DOMAIN relationships)

\* The query has returned two rows, one of them for a relationship between
\* two different entities
C12_Witness ==
    /\ call.op = "Query"
    /\ call.cypher = AllRelationshipsQuery
    /\ Cardinality(rows) = 2
    /\ \E row \in rows : row.a.ID # row.b.ID

\* The relationships of a batch whose endpoints are both stored
RECURSIVE WithEndpoints(_, _)
WithEndpoints(ents, list) ==
    IF list = <<>> THEN <<>>
    ELSE IF Head(list).Source \in DOMAIN ents /\ Head(list).Target \in DOMAIN ents
    THEN <<Head(list)>> \o WithEndpoints(ents, Tail(list))
    ELSE WithEndpoints(ents, Tail(list))

\* C16. Per-record failure accounting: StoreKnowledgeGraph returns no error;
\* the relationships with a missing endpoint fail on their own, the store ends
\* as if every other relationship of the batch had been upserted in order, and
\* the number reported as stored is the batch size minus the number of failures.
C16_PerRecordFailure ==
    call.op = "StoreKnowledgeGraph" =>
        /\ call.err = "nil"
        /\ relationships \in
                {out.rels : out \in CreateRelationships(entities, before.relationships,
                                                         WithEndpoints(entities, call.list[2]))}
        /\ \A row \in rows :
                row.successfulRelationships =
                    Len(call.list[2]) -
                    Cardinality({i \in 1..Len(call.list[2]) :
                                    \/ call.list[2][i].Source \notin DOMAIN entities
                                    \/ call.list[2][i].Target \notin DOMAIN entities})

\* A batch of three relationships whose second one lacks its target: the
\* first is stored, the third has raised its confidence, and two are reported
C16_Witness ==
    /\ call.op = "StoreKnowledgeGraph"
    /\ Len(call.list[2]) = 3
    /\ call.list[2][2].Target \notin DOMAIN entities
    /\ call.list[2][1].ID \in DOMAIN relationships
    /\ call.list[2][3].Confidence > call.list[2][1].Confidence
    /\ relationships[call.list[2][1].ID].Confidence = call.list[2][3].Confidence
    /\ rows = {[successfulRelationships |-> 2]}

\* C18. No deletion except full clear: a step of any call other than the
\* store's ClearDatabase keeps every stored entity id and every stored
\* relationship id, and ClearDatabase leaves no entity and no relationship.
C18_NoDeletionExceptClear ==
    [][IF call'.op = "ClearDatabase"
       THEN DOMAIN entities' = {} /\ DOMAIN relationships' = {}
       ELSE /\ DOMAIN entities \subseteq DOMAIN entities'
            /\ DOMAIN relationships \subseteq DOMAIN relationships']_vars

\* A relationship has been written under an id that was stored already, with
\* a second relationship and both entities stored beside it
C18_Witness ==
    /\ call.op = "CreateRelationship"
    /\ call.err = "nil"
    /\ Cardinality(DOMAIN relationships) >= 2
    /\ Cardinality(DOMAIN entities) = 2
    /\ call.relationship.ID \in DOMAIN relationships

\* C19. Whenever KnowledgeGraphGenerator.ClearDatabase returns without error
\* the in-memory store holds no entities and no relationships.
C19_GeneratorClearDatabase ==
    (call.op = "KnowledgeGraphGenerator.ClearDatabase" /\ call.err = "nil") =>
        /\ DOMAIN entities = {}
        /\ DOMAIN relationships = {}

\* The callers whose CreateEntity or CreateRelationship has returned
Writers == {t \in Threads : threads[t].pc = "done" /\ threads[t].op # "Query"}

\* Every outcome of running the calls of these callers one after another, in
\* this order, on an empty store: the store and the error each call returned
RECURSIVE SerialRuns(_, _)
SerialRuns(order, n) ==
    IF n = 0
    THEN {[entities |-> EmptyMap, relationships |-> EmptyMap, errs |-> [t \in {} |-> "nil"]]}
    ELSE UNION {
        IF threads[order[n]].op = "CreateEntity"
        THEN {[entities |-> CreateEntity(run.entities, threads[order[n]].entity),
               relationships |-> run.relationships,
               errs |-> [t \in (DOMAIN run.errs) \cup {order[n]} |->
                            IF t = order[n] THEN "nil" ELSE run.errs[t]]]}
        ELSE {[entities |-> run.entities,
               relationships |-> out.rels,
               errs |-> [t \in (DOMAIN run.errs) \cup {order[n]} |->
                            IF t = order[n] THEN out.err ELSE run.errs[t]]] :
                out \in CreateRelationship(run.entities, run.relationships,
                                           threads[order[n]].relationship)} :
        run \in SerialRuns(order, n - 1)}

NoWriteInProgress ==
    \A t \in Threads :
        threads[t].op \in {"CreateEntity", "CreateRelationship"} =>
            threads[t].pc \in {"lock", "done"}

\* C20. Upserts are safe under concurrent callers: whenever no write is in
\* progress the store, and the error every finished call returned, are those
\* of running the finished calls one after another in some order; the stored
\* confidence of an entity is the maximum over the finished calls for its id
\* and it holds every property key they wrote; and every row a concurrent
\* 'all relationships' Query returned has both endpoint entities, one row for
\* every relationship it ranged over.
C20_ConcurrentUpserts ==
    /\ NoWriteInProgress =>
        /\ \E order \in Orders(Writers) :
           \E run \in SerialRuns(order, Cardinality(Writers)) :
                /\ run.entities = entities
                /\ run.relationships = relationships
                /\ \A t \in Writers : threads[t].err = run.errs[t]
        /\ \A t \in Writers :
                threads[t].op = "CreateEntity" =>
                    /\ threads[t].entity.ID \in DOMAIN entities
                    /\ entities[threads[t].entity.ID].Confidence =
                            SetMax({threads[u].entity.Confidence :
                                        u \in {w \in Writers :
                                                /\ threads[w].op = "CreateEntity"
                                                /\ threads[w].entity.ID = threads[t].entity.ID}})
                    /\ DOMAIN threads[t].entity.Properties \subseteq
                            DOMAIN entities[threads[t].entity.ID].Properties
    /\ \A t \in Threads :
            (/\ At(t, "done", "Query")
             /\ threads[t].cypher = AllRelationshipsQuery) =>
                /\ \A row \in threads[t].rows :
                        row.a.ID = row.r.Source /\ row.b.ID = row.r.Target
                /\ Cardinality(threads[t].rows) = Cardinality(DOMAIN threads[t].rels)

\* Two callers have upserted one entity with different confidences and
\* different property keys, a third has stored a relationship on it, and the
\* entity holds the larger confidence and both keys
C20_Witness ==
    /\ \A t \in Threads : threads[t].pc = "done"
    /\ threads["t1"].op = "CreateEntity"
    /\ threads["t2"].op = "CreateEntity"
    /\ threads["t3"].op = "CreateRelationship"
    /\ threads["t3"].err = "nil"
    /\ threads["t1"].entity.Confidence > threads["t2"].entity.Confidence
    /\ DOMAIN threads["t1"].entity.Properties = {"k1"}
    /\ DOMAIN threads["t2"].entity.Properties = {"k2"}
    /\ entities["e1"].Confidence = threads["t1"].entity.Confidence
    /\ DOMAIN entities["e1"].Properties = {"k1", "k2"}
    /\ DOMAIN relationships # {}

---------------------------------------------------------------------------
(* Claims about the scan of a codebase *)

Scanned == scanned.op = "AnalyzeCodebase"

ScannedOK == Scanned /\ scanned.err = NoError

FileNodes == {node \in scanned.fs.nodes : ~node.isDir}

EntitiesOf(type) ==
    {scanned.entities[i] : i \in {j \in 1..Len(scanned.entities) : scanned.entities[j].Type = type}}

FileEntityPaths == {e.Properties["path"] : e \in EntitiesOf(FILE)}

ScannedPaths == {scanned.files[i].Path : i \in 1..Len(scanned.files)}

ExcludedName(name) == name \in skipDirs \/ name[1] = "."

UnderExcluded(node) == \E k \in 1..Len(node.dir) : ExcludedName(node.dir[k])

SupportedName(name) == ToLower(Ext(name)) \in supportedExtensions

\* The directories that lead to the node can all be read
Reachable(node) ==
    \A k \in 1..Len(node.dir) :
        \A d \in scanned.fs.nodes :
            d.isDir /\ d.dir = SubSeq(node.dir, 1, k - 1) /\ d.name = node.dir[k] => d.readable

Eligible(node) ==
    ~node.isDir /\ SupportedName(node.name) /\ ~UnderExcluded(node) /\ node.readable

ContainsEdge(source, target) ==
    \E i \in 1..Len(scanned.relationships) :
        /\ scanned.relationships[i].Type = CONTAINS
        /\ scanned.relationships[i].Source = source.ID
        /\ scanned.relationships[i].Target = target.ID

\* C13. Exclusion correctness: after a scan that returned no error, no file
\* entity has the path of a file that lies, below the root, under a directory
\* whose name is in the exclusion set or begins with a dot, whatever the
\* file's extension; an excluded directory is not descended into, so nothing
\* unreadable in or below it can end the scan; and the root is scanned
\* whatever its own name, so that the eligible files under no excluded
\* directory are all returned.
C13_ExclusionCorrectness ==
    /\ ScannedOK =>
          /\ \A node \in FileNodes :
                 UnderExcluded(node) => NodePath(scanned.fs, node) \notin FileEntityPaths
          /\ \A node \in FileNodes :
                 Eligible(node) => NodePath(scanned.fs, node) \in FileEntityPaths
    /\ ( /\ Scanned
         /\ scanned.fs.rootExists /\ scanned.fs.rootReadable
         /\ \A node \in scanned.fs.nodes :
                ~node.readable => UnderExcluded(node) \/ (node.isDir /\ ExcludedName(node.name)) )
       => scanned.err = NoError

\* The root is named bin, files lie under a listed and under a dot-prefixed
\* directory, and the file placed in the root came back
C13_Witness ==
    /\ ScannedOK
    /\ scanned.fs.root = <<"b", "i", "n">>
    /\ \E node \in FileNodes : node.dir = <<<<".", "x">>>>
    /\ \E node \in FileNodes : node.dir = <<<<"b">>, <<"b", "i", "n">>>>
    /\ \E node \in scanned.fs.nodes : node.isDir /\ ExcludedName(node.name) /\ ~node.readable
    /\ <<"b", "i", "n", "/", "y", ".", "g", "o">> \in FileEntityPaths

\* C14. Directory scaffold: after a scan that returned no error, every
\* directory that holds a returned file has a directory entity, every file
\* returned has a contains edge from the entity of the directory it is placed
\* in, and every directory entity has a contains edge to the entity of each
\* of its immediate sub-directories.
C14_DirectoryScaffold ==
    ScannedOK =>
        /\ \A i \in 1..Len(scanned.files) :
               \E d \in EntitiesOf(DIRECTORY) : \E f \in EntitiesOf(FILE) :
                   /\ d.Properties["path"] = Dir(scanned.files[i].Path)
                   /\ f.Properties["path"] = scanned.files[i].Path
                   /\ ContainsEdge(d, f)
        /\ \A d, sub \in EntitiesOf(DIRECTORY) :
               Dir(sub.Properties["path"]) = d.Properties["path"] => ContainsEdge(d, sub)

\* C15. Unknown-language fallback: after a scan that returned no error, a
\* file whose extension is not supported is not among the files collected,
\* is analysed by nothing and has no file entity; and the analysis of a file
\* whose language has no analyzer of its own returned the file entity alone
\* and no relationship.
OwnAnalyzer == {pair[1] : pair \in RegisteredAnalyzers} \ {Unknown}

C15_UnknownLanguageFallback ==
    ScannedOK =>
        /\ \A node \in FileNodes :
               ~SupportedName(node.name) =>
                   /\ NodePath(scanned.fs, node) \notin ScannedPaths
                   /\ NodePath(scanned.fs, node) \notin FileEntityPaths
                   /\ \A i \in 1..Len(scanned.analyses) :
                          scanned.analyses[i].file.Path # NodePath(scanned.fs, node)
        /\ \A i \in 1..Len(scanned.analyses) :
               scanned.analyses[i].file.Language \notin OwnAnalyzer =>
                   /\ Len(scanned.analyses[i].entities) = 1
                   /\ scanned.analyses[i].entities[1].Type = FILE
                   /\ scanned.analyses[i].entities[1].Properties["path"]
                          = scanned.analyses[i].file.Path
                   /\ scanned.analyses[i].relationships = <<>>

\* A file of an unsupported extension lies in the tree, and a file of the
\* language "unknown" and a file of the language "cpp" were analysed
C15_Witness ==
    /\ ScannedOK
    /\ \E node \in FileNodes : ~SupportedName(node.name)
    /\ \E i \in 1..Len(scanned.analyses) : scanned.analyses[i].file.Language = Unknown
    /\ \E i \in 1..Len(scanned.analyses) :
           /\ scanned.analyses[i].file.Language = <<"c", "p", "p">>
           /\ scanned.analyses[i].file.Content # <<>>
           /\ Len(scanned.analyses[i].entities) = 1

\* C17. I/O failures below the root never abort a scan: when the root exists
\* and can be read, the scan returns no error, and every eligible file that
\* no unreadable directory leads to is among the files collected.
C17_IOFailuresNeverAbort ==
    (Scanned /\ scanned.fs.rootExists /\ scanned.fs.rootReadable) =>
        /\ scanned.err = NoError
        /\ \A node \in FileNodes :
               Eligible(node) /\ Reachable(node) => NodePath(scanned.fs, node) \in ScannedPaths

---------------------------------------------------------------------------
(* Claims about batches, analyzers and the second backend *)

\* The relationships maps that upserting the list, one relationship after
\* the other, can leave when every upsert succeeds
RECURSIVE UpsertedInOrder(_, _, _)
UpsertedInOrder(ents, rels, list) ==
    IF list = <<>> THEN {rels}
    ELSE UNION {UpsertedInOrder(ents, one.rels, Tail(list)) :
                   one \in {o \in CreateRelationship(ents, rels, Head(list)) : o.err = "nil"}}

MissingEndpoint(ents, relationship) ==
    relationship.Source \notin DOMAIN ents \/ relationship.Target \notin DOMAIN ents

\* C30. CreateRelationships stops at the first failure: when the call returns
\* an error, the list has a first relationship with a missing endpoint, the
\* error is that relationship's, and the store is left as upserting the
\* relationships before it, in order, leaves it: nothing after it is stored.
C30_StopsAtFirstFailure ==
    [][(call'.op = "CreateRelationships" /\ call'.err # "nil") =>
          \E k \in 1..Len(call'.list) :
              /\ \A j \in 1..(k - 1) : ~MissingEndpoint(entities, call'.list[j])
              /\ MissingEndpoint(entities, call'.list[k])
              /\ call'.err = IF call'.list[k].Source \notin DOMAIN entities
                             THEN "source entity not found" ELSE "target entity not found"
              /\ relationships' \in
                     UpsertedInOrder(entities, relationships, SubSeq(call'.list, 1, k - 1))]_vars

\* The first relationship of the list failed, the second has both endpoints
\* stored, and no stored relationship joins the second's endpoints
C30_Witness ==
    /\ call.op = "CreateRelationships"
    /\ call.err # "nil"
    /\ Len(call.list) = 2
    /\ MissingEndpoint(entities, call.list[1])
    /\ ~MissingEndpoint(entities, call.list[2])
    /\ call.list[2].ID # ""
    /\ \A id \in DOMAIN relationships : ~SameEdge(relationships[id], call.list[2])

BatchIds(list) == {list[i].ID : i \in 1..Len(list)}

\* The relationships of the batch whose two endpoints are entities of the batch
ClosedInBatch(c) ==
    {i \in 1..Len(c.list[2]) :
        /\ c.list[2][i].Source \in BatchIds(c.list[1])
        /\ c.list[2][i].Target \in BatchIds(c.list[1])}

\* C22. Write ordering: StoreKnowledgeGraph upserts every entity of the batch
\* before it attempts a relationship, so on a fresh store the relationships
\* whose upsert it reports as successful are exactly those whose two endpoints
\* are entities of the batch: none of them fails for a missing endpoint.
C22_EntitiesBeforeRelationships ==
    call.op = "StoreKnowledgeGraph" =>
        rows = {[successfulRelationships |-> Cardinality(ClosedInBatch(call))]}

\* Every relationship of the batch ends at the entity that comes last in the
\* batch, and all of them were stored
C22_Witness ==
    /\ call.op = "StoreKnowledgeGraph"
    /\ Len(call.list[1]) = 2
    /\ call.list[1][1].ID # call.list[1][2].ID
    /\ Len(call.list[2]) = MaxBatchRelationships
    /\ \A i \in 1..Len(call.list[2]) : call.list[2][i].Target = call.list[1][2].ID
    /\ ClosedInBatch(call) = 1..Len(call.list[2])
    /\ rows = {[successfulRelationships |-> MaxBatchRelationships]}

ReturnedIds == {scanned.entities[i].ID : i \in 1..Len(scanned.entities)}

\* C23. Batch closure: the source id and the target id of every relationship
\* AnalyzeCodebase returns are ids of entities of the list it returns.
C23_BatchClosure ==
    Scanned =>
        \A i \in 1..Len(scanned.relationships) :
            /\ scanned.relationships[i].Source \in ReturnedIds
            /\ scanned.relationships[i].Target \in ReturnedIds

\* An analyzer edge, a contains edge and a references edge were returned
C23_Witness ==
    /\ ScannedOK
    /\ \E i \in 1..Len(scanned.relationships) : scanned.relationships[i].Type = IMPORTS
    /\ \E i \in 1..Len(scanned.relationships) : scanned.relationships[i].Type = CONTAINS
    /\ \E i \in 1..Len(scanned.relationships) : scanned.relationships[i].Type = REFERENCES

\* C24. Barrier ordering: no step of AnalyzeCodebase that joins a file with
\* its directory and produces a contains edge, and no linking of imports,
\* comes before the dispatch of a file to its analyzer.
C24_BarrierOrdering ==
    ScannedOK =>
        \A i, j \in 1..Len(scanned.steps) :
            ( /\ i < j
              /\ scanned.steps[j].kind = "dispatch" )
            => ~ \/ scanned.steps[i].kind = "link"
                 \/ scanned.steps[i].kind = "join" /\ scanned.steps[i].edges > 0

\* The label and the path of the entity both contain the import's source
SourceMatches(imp, e) ==
    /\ Has(imp.Properties, "source")
    /\ Contains(e.Label, imp.Properties["source"])
    /\ Has(e.Properties, "path")
    /\ Contains(e.Properties["path"], imp.Properties["source"])

ReferencesEdge(source, target) ==
    \E i \in 1..Len(scanned.relationships) :
        /\ scanned.relationships[i].Type = REFERENCES
        /\ scanned.relationships[i].Source = source.ID
        /\ scanned.relationships[i].Target = target.ID

\* C27. Import linking: among the entities AnalyzeCodebase returns, an import
\* entity has a references edge to another entity exactly when that entity's
\* label and path both contain the import's source.
C27_ImportLinking ==
    ScannedOK =>
        \A imp \in EntitiesOf(IMPORT) :
            \A i \in 1..Len(scanned.entities) :
                scanned.entities[i] # imp =>
                    (SourceMatches(imp, scanned.entities[i])
                        <=> ReferencesEdge(imp, scanned.entities[i]))

\* The server has no node with the relationship's source id, or none with
\* its target id
MissingNode(relationship) ==
    \/ MatchNodes(memgraph.nodes, relationship.Source) = {}
    \/ MatchNodes(memgraph.nodes, relationship.Target) = {}

\* C28. On the Memgraph backend a CreateRelationship whose source or target
\* id is the id of no node returns an error, and StoreKnowledgeGraph counts
\* as stored no more relationships than those of the batch whose two
\* endpoints are nodes.
C28_MemgraphMissingEndpoint ==
    /\ (call.op = "MemgraphDatabase.CreateRelationship" /\ MissingNode(call.relationship))
           => call.err # "nil"
    /\ (call.op = "StoreKnowledgeGraph" /\ call.err = "nil")
           => \A row \in rows :
                  row.successfulRelationships <=
                      Cardinality({i \in 1..Len(call.list[2]) : ~MissingNode(call.list[2][i])})

\* C29. Isolation of values: the property map of every entity value a caller
\* holds, passed to CreateEntity earlier or handed out by Query, GetEntityByID
\* or GetAllEntities, has the keys and values it had when the caller got or
\* passed the value.
C29_IsolationOfValues ==
    \A h \in heap.held :
        h.entity.Properties # 0 => heap.maps[h.entity.Properties] = h.contents

---------------------------------------------------------------------------
(* Claims about the language analyzers *)

AnalyzedBy(analyzers) == scanned.op = "Analyze" /\ scanned.analyzer \in analyzers

\* The relationships of the result, by their place in the list, that have
\* this target and one of these types
EdgesInto(id, types) ==
    {j \in 1..Len(scanned.relationships) :
        scanned.relationships[j].Target = id /\ scanned.relationships[j].Type \in types}

\* The entities of the result, by their place, of this type and label
Labelled(type, label) ==
    {k \in 1..Len(scanned.entities) :
        scanned.entities[k].Type = type /\ scanned.entities[k].Label = label}

LineOf(entity) == scanned.file.Content[entity.Properties["lineNumber"]]

\* C21. Every analyzer returns no error and a list of entities whose first
\* is the file entity it was given, id unchanged, whatever the content; of a
\* package.json whose content is not valid JSON the result is that file
\* entity alone and no relationship.
C21_AnalyzersNeverFail ==
    scanned.op = "Analyze" =>
        /\ scanned.err = NoError
        /\ Len(scanned.entities) >= 1
        /\ scanned.entities[1] = scanned.fileEntity
        /\ scanned.entities[1].ID = createFileEntity(scanned.file).ID
        /\ (/\ scanned.analyzer = "json"
            /\ scanned.file.Name = PackageJSON
            /\ scanned.file.Content \notin WellFormedContents)
           => /\ scanned.entities = <<scanned.fileEntity>>
              /\ scanned.relationships = <<>>

\* A package.json that lacks its last brace and would list a dependency with it
C21_Witness ==
    /\ AnalyzedBy({"json"})
    /\ scanned.file.Name = PackageJSON
    /\ scanned.file.Content \notin WellFormedContents
    /\ scanned.file.Content \o <<Close>> \in WellFormedContents
    /\ \E i \in 1..Len(scanned.file.Content) :
           /\ scanned.file.Content[i] = Token("str", DependenciesKey)
           /\ i + 5 <= Len(scanned.file.Content)
           /\ scanned.file.Content[i + 5] = Token("str", Version)
    /\ scanned.entities = <<scanned.fileEntity>>

C26_MemberContainment ==
    AnalyzedBy({"go", "typescript", "python", "java"}) =>
        \A i \in 1..Len(scanned.entities) :
            scanned.entities[i].Type \in {METHOD, PROPERTY} =>
                \E j \in EdgesInto(scanned.entities[i].ID, {CONTAINS}) :
                \E k \in 1..Len(scanned.entities) :
                    /\ scanned.entities[k].ID = scanned.relationships[j].Source
                    /\ scanned.entities[k].Type \in {CLASS, INTERFACE, TYPE}

====
